---- MODULE Spec2Model ----
(***************************************************************************)
(* A model of bevy-react's embedded script runtime: the command protocol   *)
(* of the JS engine worker (js/engine.rs, js/client.rs), the fetching      *)
(* module loader (js/esm.rs) and the builder's extension registration      *)
(* (js/builder.rs).                                                        *)
(*                                                                         *)
(* Strings of the program are sequences of one-character strings, so that  *)
(* the path and URL operations are computed character by character.        *)
(***************************************************************************)
EXTENDS Integers, Sequences, FiniteSets, TLC

(***************************************************************************)
(* Bounds of the model.                                                    *)
(***************************************************************************)
\* Client calls made in one behaviour (accepted or dropped).
MaxCmds == 3

\* The calls the host of the WebSocket scenarios makes, the WebSocket
\* constructions among them, and the inbound frames read on one connection.
MaxSocketCalls == 2

\* The connect calls made by the threads that call connect at once.
MaxIdCalls == 4

\* The host-bridge native calls made once observation has begun.
MaxBridgeCalls == 3

\* The messages the host consumer takes from one bridge once observation
\* has begun.
MaxBridgeRecvs == 2

\* mpsc::sync_channel(256)
BridgeCapacity == 256

MaxConns == 2

\* The extensions given to the builder.
MaxExts == 2

MaxFrames == 1

\* Frames read on the one connection of the frame scenario.
MaxReads == 3

\* Characters in a string given to escape_json_string.
MaxEscLen == 3

(***************************************************************************)
(* Strings.                                                                *)
(***************************************************************************)
Letters == {"a", "b", "c", "d", "e", "h", "j", "m", "o", "p", "r", "s", "t", "x"}

Digits == {"0", "1", "2", "3", "5", "7"}

\* str::starts_with
StartsWith(s, p) ==
    /\ Len(p) <= Len(s)
    /\ SubSeq(s, 1, Len(p)) = p

\* The positions of character ch in s.
Positions(s, ch) == {i \in 1..Len(s) : s[i] = ch}

Max(S) == CHOOSE x \in S : \A y \in S : y <= x

Min(S) == CHOOSE x \in S : \A y \in S : x <= y

\* s without its trailing '/' characters, a lone root kept.
RECURSIVE TrimTrailingSlashes(_)
TrimTrailingSlashes(s) ==
    IF Len(s) > 1 /\ s[Len(s)] = "/"
    THEN TrimTrailingSlashes(SubSeq(s, 1, Len(s) - 1))
    ELSE s

(***************************************************************************)
(* std::path on Unix, as used by the loader's "local file path logic".     *)
(***************************************************************************)
NoPath == <<"<none>">>

\* Path::parent: the path without its final component; None for a root or
\* an empty path.  (Referrers here carry no interior "." component.)
PathParent(p) ==
    LET t == TrimTrailingSlashes(p)
        slashes == Positions(t, "/")
    IN  IF t = <<>> \/ t = <<"/">> THEN NoPath
        ELSE IF slashes = {} THEN <<>>
        ELSE IF Max(slashes) = 1 THEN <<"/">>
        ELSE TrimTrailingSlashes(SubSeq(t, 1, Max(slashes) - 1))

\* Path::join (PathBuf::push): an absolute argument replaces the path, any
\* other argument is appended behind a separator.  Nothing is normalised.
PathJoin(base, s) ==
    IF StartsWith(s, <<"/">>) THEN s
    ELSE IF base = <<>> THEN s
    ELSE IF base[Len(base)] = "/" THEN base \o s
    ELSE base \o <<"/">> \o s

(***************************************************************************)
(* The url crate (WHATWG URL), for hierarchical URLs                       *)
(* scheme://authority/path over the characters above.                      *)
(***************************************************************************)
\* The position of the ':' that ends a scheme, 0 when s has no scheme.
SchemeEnd(s) ==
    LET colons == Positions(s, ":")
    IN  IF colons = {} THEN 0
        ELSE LET i == Min(colons)
             IN  IF /\ i > 1
                    /\ s[1] \in Letters
                    /\ \A k \in 2..(i - 1) : s[k] \in Letters \cup Digits \cup {"+", "-", "."}
                 THEN i ELSE 0

\* Split a path that starts with '/' into its segments.
RECURSIVE Segments(_)
Segments(p) ==
    IF p = <<>> THEN <<>>
    ELSE LET rest == SubSeq(p, 2, Len(p))
             slashes == Positions(rest, "/")
         IN  IF slashes = {} THEN <<rest>>
             ELSE <<SubSeq(rest, 1, Min(slashes) - 1)>>
                  \o Segments(SubSeq(rest, Min(slashes), Len(rest)))

RECURSIVE JoinSegments(_)
JoinSegments(segs) ==
    IF segs = <<>> THEN <<>>
    ELSE <<"/">> \o Head(segs) \o JoinSegments(Tail(segs))

\* The path state of the URL parser: "." is dropped and ".." removes the
\* segment before it; a dot segment in last place leaves a trailing '/'.
RECURSIVE Shorten(_, _)
Shorten(segs, out) ==
    IF segs = <<>> THEN out
    ELSE LET seg == Head(segs)
             last == Len(segs) = 1
             popped == IF out = <<>> THEN out ELSE SubSeq(out, 1, Len(out) - 1)
         IN  IF seg = <<".", ".">>
             THEN Shorten(Tail(segs), IF last THEN Append(popped, <<>>) ELSE popped)
             ELSE IF seg = <<".">>
             THEN Shorten(Tail(segs), IF last THEN Append(out, <<>>) ELSE out)
             ELSE Shorten(Tail(segs), Append(out, seg))

RemoveDotSegments(p) ==
    LET out == Shorten(Segments(p), <<>>)
    IN  IF out = <<>> THEN <<"/">> ELSE JoinSegments(out)

UrlErr == [ok |-> FALSE, scheme |-> <<>>, authority |-> <<>>, path |-> <<>>]

\* Url::parse without a base: a string with no scheme is a relative URL
\* without a base, and a hierarchical URL needs a host.
UrlParse(s) ==
    LET e == SchemeEnd(s)
    IN  IF e = 0 THEN UrlErr
        ELSE LET rest == SubSeq(s, e + 1, Len(s))
             IN  IF ~StartsWith(rest, <<"/", "/">>) THEN UrlErr
                 ELSE LET after == SubSeq(rest, 3, Len(rest))
                          slashes == Positions(after, "/")
                          auth == IF slashes = {} THEN after
                                  ELSE SubSeq(after, 1, Min(slashes) - 1)
                          path == IF slashes = {} THEN <<>>
                                  ELSE SubSeq(after, Min(slashes), Len(after))
                      IN  IF auth = <<>> THEN UrlErr
                          ELSE [ok |-> TRUE,
                                scheme |-> SubSeq(s, 1, e - 1),
                                authority |-> auth,
                                path |-> RemoveDotSegments(path)]

\* Url::to_string
UrlToString(u) == u.scheme \o <<":", "/", "/">> \o u.authority \o u.path

\* The path of the base up to and including its last '/'.
UrlDir(path) == SubSeq(path, 1, Max(Positions(path, "/")))

\* A resolution that appends every specifier to the base's directory.
UrlJoinAppend(base, spec) ==
    [base EXCEPT !.path = UrlDir(base.path) \o spec]

\* Url::options().base_url(Some(base)).parse(spec)
UrlJoin(base, spec) ==
    IF SchemeEnd(spec) > 0 THEN UrlParse(spec)
    ELSE IF StartsWith(spec, <<"/", "/">>)
    THEN UrlParse(base.scheme \o <<":">> \o spec)
    ELSE IF StartsWith(spec, <<"/">>)
    THEN [base EXCEPT !.path = RemoveDotSegments(spec)]
    ELSE IF spec = <<>> THEN base
    ELSE [base EXCEPT !.path = RemoveDotSegments(UrlDir(base.path) \o spec)]

(***************************************************************************)
(* FetchModuleLoader::load_imported_module, the resolution of a specifier  *)
(* against the referrer's path.  "how" names the branch taken.             *)
(***************************************************************************)
NoReferrer == <<"<no referrer>">>

ResolveSpecifier(referrer, specifier) ==
    IF referrer = NoReferrer
    THEN [key |-> specifier, how |-> "raw"]
    ELSE LET base_url == UrlParse(referrer)
         IN  IF base_url.ok
             THEN LET new_url == UrlJoin(base_url, specifier)
                  IN  IF new_url.ok
                      THEN [key |-> UrlToString(new_url), how |-> "url"]
                      ELSE [key |-> specifier, how |-> "url_err"]
             ELSE LET parent == PathParent(referrer)
                      base == IF parent = NoPath THEN referrer ELSE parent
                  IN  [key |-> PathJoin(base, specifier), how |-> "path"]


(***************************************************************************)
(* react/style.rs: parse_val and parse_color, computed on strings of       *)
(* ASCII characters.                                                       *)
(***************************************************************************)
RECURSIVE TrimStart(_)
TrimStart(s) == IF s # <<>> /\ s[1] = " " THEN TrimStart(Tail(s)) ELSE s

RECURSIVE TrimEnd(_)
TrimEnd(s) ==
    IF s # <<>> /\ s[Len(s)] = " " THEN TrimEnd(SubSeq(s, 1, Len(s) - 1)) ELSE s

\* str::trim
Trim(s) == TrimEnd(TrimStart(s))

UpperChars == <<"A", "B", "C", "D", "E", "F", "G", "R", "X">>

LowerChars == <<"a", "b", "c", "d", "e", "f", "g", "r", "x">>

\* str::to_lowercase
ToLowercase(s) ==
    [i \in DOMAIN s |->
        IF \E k \in DOMAIN UpperChars : UpperChars[k] = s[i]
        THEN LowerChars[CHOOSE k \in DOMAIN UpperChars : UpperChars[k] = s[i]]
        ELSE s[i]]

NoneStr == [some |-> FALSE, rest |-> <<>>]

\* A strip_suffix that never finds its suffix.
StripSuffixNever(s, suf) == NoneStr

\* str::strip_suffix
StripSuffix(s, suf) ==
    IF Len(suf) <= Len(s) /\ SubSeq(s, Len(s) - Len(suf) + 1, Len(s)) = suf
    THEN [some |-> TRUE, rest |-> SubSeq(s, 1, Len(s) - Len(suf))]
    ELSE NoneStr

\* str::strip_prefix
StripPrefix(s, pre) ==
    IF StartsWith(s, pre)
    THEN [some |-> TRUE, rest |-> SubSeq(s, Len(pre) + 1, Len(s))]
    ELSE NoneStr

HexChars == <<"0", "1", "2", "3", "4", "5", "6", "7", "8", "9", "a", "b", "c", "d", "e", "f">>

\* char::to_digit(radix): the digit's value, or -1.
ToDigit(ch, radix) ==
    LET at == {k \in 1..radix : HexChars[k] = ch}
    IN  IF at = {} THEN -1 ELSE (CHOOSE k \in at : TRUE) - 1

\* The value of a string of digits, most significant first.
RECURSIVE DigitsValue(_, _)
DigitsValue(ds, radix) ==
    IF ds = <<>> THEN 0
    ELSE DigitsValue(SubSeq(ds, 1, Len(ds) - 1), radix) * radix + ToDigit(ds[Len(ds)], radix)

AllDigits(ds, radix) == \A i \in DOMAIN ds : ToDigit(ToLowercase(ds)[i], radix) >= 0

ParseErr == [ok |-> FALSE, v |-> 0]

\* u8::from_str_radix(s, 16): an optional '+', then one or more hex digits
\* of either case, the value at most 255.
U8FromStrRadix16(s) ==
    LET ds == IF s # <<>> /\ s[1] = "+" THEN Tail(s) ELSE s
    IN  IF ds = <<>> \/ ~AllDigits(ds, 16) THEN ParseErr
        ELSE IF DigitsValue(ToLowercase(ds), 16) > 255 THEN ParseErr
        ELSE [ok |-> TRUE, v |-> DigitsValue(ToLowercase(ds), 16)]

\* str::parse::<f32> for decimal texts without an exponent: an optional
\* sign, digits with at most one '.', at least one digit.  The value is
\* kept in thousandths (the texts used here have at most three decimals).
ParseF32(s) ==
    LET signed == s # <<>> /\ s[1] \in {"+", "-"}
        body == IF signed THEN Tail(s) ELSE s
        dots == Positions(body, ".")
        whole == IF dots = {} THEN body ELSE SubSeq(body, 1, Min(dots) - 1)
        frac == IF dots = {} THEN <<>> ELSE SubSeq(body, Min(dots) + 1, Len(body))
        frac3 == SubSeq(frac \o <<"0", "0", "0">>, 1, 3)
        mag == DigitsValue(whole, 10) * 1000 + DigitsValue(frac3, 10)
    IN  IF \/ Cardinality(dots) > 1
           \/ whole \o frac = <<>>
           \/ ~AllDigits(whole \o frac, 10)
           \/ \E i \in DOMAIN body : body[i] \notin {"0", "1", "2", "3", "4", "5", "6", "7", "8", "9", "."}
        THEN ParseErr
        ELSE [ok |-> TRUE, v |-> IF signed /\ s[1] = "-" THEN 0 - mag ELSE mag]

\* bevy's Val, its number in thousandths.
Val(unit, n) == [unit |-> unit, n |-> n]

ValAuto == Val("Auto", 0)

\* One `if let Some(x) = value.strip_suffix(..) { if let Ok(n) = .. }` of
\* parse_val: the number before the suffix, if there is one.
SuffixedNumber(value, suf) ==
    LET stripped == StripSuffix(value, suf)
    IN  IF stripped.some THEN ParseF32(Trim(stripped.rest)) ELSE ParseErr

\* parse_val
ParseVal(input) ==
    LET value == Trim(input)
    IN  IF value = <<"a", "u", "t", "o">> THEN ValAuto
        ELSE IF SuffixedNumber(value, <<"p", "x">>).ok
        THEN Val("Px", SuffixedNumber(value, <<"p", "x">>).v)
        ELSE IF SuffixedNumber(value, <<"%">>).ok
        THEN Val("Percent", SuffixedNumber(value, <<"%">>).v)
        ELSE IF SuffixedNumber(value, <<"v", "w">>).ok
        THEN Val("Vw", SuffixedNumber(value, <<"v", "w">>).v)
        ELSE IF SuffixedNumber(value, <<"v", "h">>).ok
        THEN Val("Vh", SuffixedNumber(value, <<"v", "h">>).v)
        ELSE IF ParseF32(value).ok THEN Val("Px", ParseF32(value).v)
        ELSE ValAuto

\* The unit in which a colour channel is kept: 1.0 is ChannelOne, a byte n
\* of a hex colour is n / 255, and the named colours' decimals (0.5, 0.65,
\* 0.8, ..) are whole numbers of it too.
ChannelOne == 5100

NoColor == [some |-> FALSE, space |-> "none", r |-> 0, g |-> 0, b |-> 0, a |-> 0]

\* Color::srgba
Srgba(r, g, b, a) == [some |-> TRUE, space |-> "srgba", r |-> r, g |-> g, b |-> b, a |-> a]

\* Color::srgb: alpha 1.0
Srgb(r, g, b) == Srgba(r, g, b, ChannelOne)

\* Color::NONE, Color::BLACK, Color::WHITE are linear-RGB constants.
LinearRgba(r, g, b, a) ==
    [some |-> TRUE, space |-> "linear", r |-> r, g |-> g, b |-> b, a |-> a]

\* n as f32 / 255.0
ByteChannel(n) == n * (ChannelOne \div 255)

\* A short hex digit read as it stands, not doubled.
ShortHexChannelSingle(ch) == U8FromStrRadix16(<<ch>>)

\* u8::from_str_radix(&hex[i..i+1].repeat(2), 16)
ShortHexChannel(ch) == U8FromStrRadix16(<<ch, ch>>)

\* u8::from_str_radix(&hex[i..i+2], 16)
LongHexChannel(hex, i) == U8FromStrRadix16(SubSeq(hex, i, i + 1))

\* parse_hex_color
ParseHexColor(input) ==
    LET hex == Trim(input)
        short == [i \in 1..Len(hex) |-> ShortHexChannel(hex[i])]
        long == [i \in 1..(Len(hex) \div 2) |-> LongHexChannel(hex, 2 * i - 1)]
        ch == IF Len(hex) \in {3, 4} THEN short
              ELSE IF Len(hex) \in {6, 8} THEN long
              ELSE <<>>
    IN  IF ch = <<>> \/ \E i \in DOMAIN ch : ~ch[i].ok THEN NoColor
        ELSE Srgba(ByteChannel(ch[1].v), ByteChannel(ch[2].v), ByteChannel(ch[3].v),
                   IF Len(ch) = 4 THEN ByteChannel(ch[4].v) ELSE ByteChannel(255))

\* The named colours of parse_color; a name that is none of them gives
\* NoColor here.
NamedColor(value) ==
    CASE value = <<"t", "r", "a", "n", "s", "p", "a", "r", "e", "n", "t">> -> LinearRgba(0, 0, 0, 0)
          [] value = <<"b", "l", "a", "c", "k">> -> LinearRgba(0, 0, 0, ChannelOne)
          [] value = <<"w", "h", "i", "t", "e">> -> LinearRgba(ChannelOne, ChannelOne, ChannelOne, ChannelOne)
          [] value = <<"r", "e", "d">> -> Srgb(ChannelOne, 0, 0)
          [] value = <<"g", "r", "e", "e", "n">> -> Srgb(0, ChannelOne, 0)
          [] value = <<"b", "l", "u", "e">> -> Srgb(0, 0, ChannelOne)
          [] value = <<"y", "e", "l", "l", "o", "w">> -> Srgb(ChannelOne, ChannelOne, 0)
          [] value = <<"c", "y", "a", "n">> -> Srgb(0, ChannelOne, ChannelOne)
          [] value = <<"m", "a", "g", "e", "n", "t", "a">> -> Srgb(ChannelOne, 0, ChannelOne)
          [] value = <<"g", "r", "a", "y">> -> Srgb(2550, 2550, 2550)
          [] value = <<"g", "r", "e", "y">> -> Srgb(2550, 2550, 2550)
          [] value = <<"d", "a", "r", "k", "g", "r", "a", "y">> -> Srgb(1275, 1275, 1275)
          [] value = <<"d", "a", "r", "k", "g", "r", "e", "y">> -> Srgb(1275, 1275, 1275)
          [] value = <<"l", "i", "g", "h", "t", "g", "r", "a", "y">> -> Srgb(3825, 3825, 3825)
          [] value = <<"l", "i", "g", "h", "t", "g", "r", "e", "y">> -> Srgb(3825, 3825, 3825)
          [] value = <<"o", "r", "a", "n", "g", "e">> -> Srgb(ChannelOne, 3315, 0)
          [] value = <<"p", "i", "n", "k">> -> Srgb(ChannelOne, 3825, 4080)
          [] value = <<"p", "u", "r", "p", "l", "e">> -> Srgb(2550, 0, 2550)
          [] value = <<"b", "r", "o", "w", "n">> -> Srgb(3060, 1530, 0)
          [] OTHER -> NoColor

\* parse_color, for inputs that are a name, a hex colour or neither (no
\* rgb(..) / rgba(..) text is among the inputs).
ParseColor(input) ==
    LET value == ToLowercase(Trim(input))
    IN  IF NamedColor(value).some THEN NamedColor(value)
        ELSE IF StripPrefix(value, <<"#">>).some
        THEN ParseHexColor(StripPrefix(value, <<"#">>).rest)
        ELSE NoColor

(***************************************************************************)
(* escape_json_string, and the reading of a double-quoted string literal.  *)
(* A character is a one-character string, or the name U+XXXX of a          *)
(* character that cannot be written here.                                  *)
(***************************************************************************)
EscChars ==
    {"\"", "\\", "\n", "\r", "\t", "U+0000", "U+001F", "U+007F", "U+009F",
     "a", "n", "u", "0", "'", "U+2028", "U+1F600"}

\* c as u32; the last arm is for the hex digits.
CodePoint(c) ==
    CASE c = "\"" -> 34
      [] c = "\\" -> 92
      [] c = "\n" -> 10
      [] c = "\r" -> 13
      [] c = "\t" -> 9
      [] c = "U+0000" -> 0
      [] c = "U+001F" -> 31
      [] c = "U+007F" -> 127
      [] c = "U+009F" -> 159
      [] c = "a" -> 97
      [] c = "n" -> 110
      [] c = "u" -> 117
      [] c = "0" -> 48
      [] c = "'" -> 39
      [] c = "U+2028" -> 8232
      [] c = "U+1F600" -> 128512
      [] c = "r" -> 114
      [] c = "t" -> 116
      [] OTHER -> IF ToDigit(c, 16) < 10 THEN 48 + ToDigit(c, 16) ELSE 87 + ToDigit(c, 16)

\* char::is_control: the general category Cc, U+0000..U+001F and
\* U+007F..U+009F.
IsControl(c) == CodePoint(c) <= 31 \/ (127 <= CodePoint(c) /\ CodePoint(c) <= 159)

\* format!("{:x}", n): the hex digits of n, lower case, no padding.
RECURSIVE LowerHex(_)
LowerHex(n) ==
    IF n < 16 THEN <<HexChars[n + 1]>>
    ELSE Append(LowerHex(n \div 16), HexChars[(n % 16) + 1])

\* format!("\\u{:04x}", n): at least four digits, padded with zeros.
UnicodeEscape(n) ==
    LET ds == LowerHex(n)
        pad == [k \in 1..(IF Len(ds) < 4 THEN 4 - Len(ds) ELSE 0) |-> "0"]
    IN  <<"\\", "u">> \o pad \o ds

\* An escape that passes the control characters it has no short form for.
EscapeCharShortOnly(c) ==
    CASE c = "\"" -> <<"\\", "\"">>
      [] c = "\\" -> <<"\\", "\\">>
      [] c = "\n" -> <<"\\", "n">>
      [] c = "\r" -> <<"\\", "r">>
      [] c = "\t" -> <<"\\", "t">>
      [] OTHER -> <<c>>

\* One arm of the match in escape_json_string.
EscapeChar(c) ==
    CASE c = "\"" -> <<"\\", "\"">>
      [] c = "\\" -> <<"\\", "\\">>
      [] c = "\n" -> <<"\\", "n">>
      [] c = "\r" -> <<"\\", "r">>
      [] c = "\t" -> <<"\\", "t">>
      [] OTHER -> IF IsControl(c) THEN UnicodeEscape(CodePoint(c)) ELSE <<c>>

\* escape_json_string: for c in s.chars() { .. }
RECURSIVE EscapeJsonString(_)
EscapeJsonString(str) ==
    IF str = <<>> THEN <<>>
    ELSE EscapeChar(Head(str)) \o EscapeJsonString(Tail(str))

DecodeErr == [ok |-> FALSE, v |-> <<>>]

\* The character with code point n, among the characters written here.
CharOf(n) ==
    LET cs == {c \in EscChars : CodePoint(c) = n}
    IN  IF cs = {} THEN DecodeErr ELSE [ok |-> TRUE, v |-> <<CHOOSE c \in cs : TRUE>>]

\* The character a backslash escape of a string literal stands for, with
\* the number of characters of the escape.
DecodeEscape(t) ==
    IF Len(t) < 2 THEN [ok |-> FALSE, v |-> <<>>, n |-> 0]
    ELSE CASE t[2] \in {"\"", "\\", "'"} -> [ok |-> TRUE, v |-> <<t[2]>>, n |-> 2]
           [] t[2] = "n" -> [ok |-> TRUE, v |-> <<"\n">>, n |-> 2]
           [] t[2] = "r" -> [ok |-> TRUE, v |-> <<"\r">>, n |-> 2]
           [] t[2] = "t" -> [ok |-> TRUE, v |-> <<"\t">>, n |-> 2]
           [] t[2] = "u" ->
                 IF Len(t) >= 6 /\ AllDigits(SubSeq(t, 3, 6), 16)
                 THEN LET ch == CharOf(DigitsValue(ToLowercase(SubSeq(t, 3, 6)), 16))
                      IN  [ok |-> ch.ok, v |-> ch.v, n |-> 6]
                 ELSE [ok |-> FALSE, v |-> <<>>, n |-> 0]
           [] OTHER -> [ok |-> FALSE, v |-> <<>>, n |-> 0]

\* The string that the text t denotes when it stands between double quotes
\* as a string literal: a bare double quote ends the literal early, a bare
\* control character is not allowed in JSON text (a bare line terminator not
\* in a script either), a backslash begins an escape.
RECURSIVE DecodeLiteral(_)
DecodeLiteral(t) ==
    IF t = <<>> THEN [ok |-> TRUE, v |-> <<>>]
    ELSE IF Head(t) = "\"" THEN DecodeErr
    ELSE IF Head(t) = "\\"
    THEN LET e == DecodeEscape(t)
         IN  IF ~e.ok THEN DecodeErr
             ELSE LET rest == DecodeLiteral(SubSeq(t, e.n + 1, Len(t)))
                  IN  IF rest.ok THEN [ok |-> TRUE, v |-> e.v \o rest.v] ELSE DecodeErr
    ELSE IF IsControl(Head(t)) THEN DecodeErr
    ELSE LET rest == DecodeLiteral(Tail(t))
         IN  IF rest.ok THEN [ok |-> TRUE, v |-> <<Head(t)>> \o rest.v] ELSE DecodeErr

(***************************************************************************)
(* Sources.  A source text is described by what evaluating it does: whether *)
(* it parses, whether its evaluation throws, and the specifiers it imports. *)
(***************************************************************************)
\* The native call a script makes (on the WebSocket shim, the timer
\* extension or the host bridge): none for a plain script.
WsNone == [op |-> "none", id |-> 0, ev |-> "none", code |-> 0, valid |-> TRUE]

SrcOk == [parses |-> TRUE, throws |-> FALSE, imports |-> <<>>, ws |-> WsNone]

SrcThrow == [parses |-> TRUE, throws |-> TRUE, imports |-> <<>>, ws |-> WsNone]

SrcSyntax == [parses |-> FALSE, throws |-> FALSE, imports |-> <<>>, ws |-> WsNone]

SrcImport(specifier) ==
    [parses |-> TRUE, throws |-> FALSE, imports |-> <<specifier>>, ws |-> WsNone]

\* WebSocket ready states.
WS_CONNECTING == 0

WS_OPEN == 1

WS_CLOSING == 2

WS_CLOSED == 3

\* A script that runs `new WebSocket(url)`; valid says whether url parses.
SrcWsNew(valid) ==
    [parses |-> TRUE, throws |-> FALSE, imports |-> <<>>,
     ws |-> [op |-> "new", id |-> 0, ev |-> "none", code |-> 0, valid |-> valid]]

\* The same script, followed through the constructor statement by
\* statement.
SrcWsNewSteps(valid) ==
    [parses |-> TRUE, throws |-> FALSE, imports |-> <<>>,
     ws |-> [op |-> "new_steps", id |-> 0, ev |-> "none", code |-> 0, valid |-> valid]]

\* A script that calls send on the WebSocket object of connection id.
SrcWsSend(id) ==
    [parses |-> TRUE, throws |-> FALSE, imports |-> <<>>,
     ws |-> [op |-> "send", id |-> id, ev |-> "none", code |-> 0, valid |-> TRUE]]

\* A script that calls __ws_send(id, data) itself.
SrcWsNativeSend(id) ==
    [parses |-> TRUE, throws |-> FALSE, imports |-> <<>>,
     ws |-> [op |-> "native_send", id |-> id, ev |-> "none", code |-> 0, valid |-> TRUE]]

\* A script that calls close on the WebSocket object of connection id.
SrcWsClose(id) ==
    [parses |-> TRUE, throws |-> FALSE, imports |-> <<>>,
     ws |-> [op |-> "close", id |-> id, ev |-> "none", code |-> 0, valid |-> TRUE]]

\* A script that calls __ws_close(id, code, reason) itself.
SrcWsNativeClose(id) ==
    [parses |-> TRUE, throws |-> FALSE, imports |-> <<>>,
     ws |-> [op |-> "native_close", id |-> id, ev |-> "none", code |-> 0, valid |-> TRUE]]

\* format!("__ws_dispatch_event({}, '{}', {});", id, event_type, data)
SrcWsDispatch(id, ev, code) ==
    [parses |-> TRUE, throws |-> FALSE, imports |-> <<>>,
     ws |-> [op |-> "dispatch", id |-> id, ev |-> ev, code |-> code, valid |-> TRUE]]

\* A script that runs `__react_create_node(root, type, props)`.
SrcCreateNode ==
    [parses |-> TRUE, throws |-> FALSE, imports |-> <<>>,
     ws |-> [op |-> "create_node", id |-> 0, ev |-> "none", code |-> 0, valid |-> TRUE]]

\* A script that runs `setTimeout(f, delay)`.
SrcSetTimeout ==
    [parses |-> TRUE, throws |-> FALSE, imports |-> <<>>,
     ws |-> [op |-> "set_timeout", id |-> 0, ev |-> "none", code |-> 0, valid |-> TRUE]]

\* The module names and URLs of the loader scenarios.
NameMain == <<"m", "a", "i", "n">>

KeyA == <<"h", "t", "t", "p", ":", "/", "/", "h", "/", "a", ".", "j", "s">>

KeyB == <<"h", "t", "t", "p", ":", "/", "/", "h", "/", "b", ".", "j", "s">>

RelB == <<".", "/", "b", ".", "j", "s">>

\* What the dev server serves: the module at KeyA imports "./b.js".
NetImports(key) == IF key = KeyA THEN <<RelB>> ELSE <<>>

(***************************************************************************)
(* State.                                                                  *)
(***************************************************************************)
VARIABLES
    queue,          \* the mpsc channel of JsCommand, oldest first
    receiverAlive,  \* the Receiver<JsCommand> has not been dropped
    workerPc,       \* where the worker thread is
    cur,            \* the command the worker is processing
    exitCause,      \* "none", or why the worker left its loop
    registered,     \* extensions registered into the context, in order
    jobs,           \* pending jobs of the context: imports to load
    cache,          \* FetchModuleLoader::local_modules
    ctxAccess,      \* history: the threads that touched the context
    callLog,        \* history: every client call, with whether it was sent
    execLog,        \* history: what the worker did, per command id
    importLog,      \* history: every load_imported_module call
    fetchLog        \* history: every network fetch issued

VARIABLES
    rReferrer,      \* the referrer given to the resolution
    rSpecifier,     \* the specifier given to the resolution
    rResolved,      \* its result
    rPc             \* "input" before, "done" after

VARIABLES
    nextId,         \* WebSocketManager::next_id
    connections,    \* the ids in WebSocketManager::connections
    readyState,     \* per id: the connection's shared ready_state
    outbound,       \* per id: the unbounded channel to its send task
    auxPc,          \* per id: where the connection's thread is
    auxCode,        \* per id: the close code that thread is about to report
    sendPc,         \* per id: "off", "run" or "stopped", the send task
    frames,         \* per id: the inbound frames read, oldest first
    wire,           \* per id: the messages written to the peer
    urlValid,       \* per id: whether the url given to connect parses
    wsRegistry,     \* the ids in the shim's wsRegistry
    jsReadyState,   \* per id: the script object's _readyState
    sendLog,        \* history: every send a script made, with its result
    jsEvents        \* history: every __ws_dispatch_event call

VARIABLES
    idsPc,          \* per calling thread: where it is inside connect
    idsLocal,       \* per calling thread: the id its fetch_add returned
    idsLog          \* history: the ids allocated, in allocation order

VARIABLES
    nodeIdCounter,  \* NODE_ID_COUNTER
    chan,           \* per bridge: the messages pending in its sync_channel
    prodPc,         \* per producer thread: the native call it is inside
    allocLog,       \* history: the node ids allocated, in allocation order
    recvLog,        \* per bridge: the messages the host consumer received
    nativeLog,      \* history: the native calls, in the order they began
    retLog,         \* history: the native calls that returned, with their value
    prefill         \* how many calls had been made when observation began

VARIABLES
    extensions      \* JsEngineBuilder::extensions, in the order added

VARIABLES
    rxDropped       \* the bridges whose ReactClientReceiver has been dropped

VARIABLES
    earlyEvents     \* history: per instance stored in wsRegistry, the events
                    \* its thread had enqueued by then

VARIABLES
    timers,         \* the timers set by scripts: "waiting", "due" or "ran"
    timerLog        \* history: the timers run, with the command being flushed

VARIABLES
    escIn,          \* the string given to escape_json_string
    escOut,         \* its result
    escPc           \* "input" before, "done" after

VARIABLES
    styleIn,        \* the string given to the style parser
    styleFn,        \* "val" or "color": which parser it is given to
    styleOut,       \* its result
    stylePc         \* "input" before, "done" after

engineVars == <<queue, receiverAlive, workerPc, cur, exitCause, registered, ctxAccess,
                callLog, execLog>>

loaderVars == <<jobs, cache, importLog, fetchLog>>

resolveVars == <<rReferrer, rSpecifier, rResolved, rPc>>

socketVars == <<nextId, connections, readyState, outbound, auxPc, auxCode, sendPc, frames,
                wire, urlValid, wsRegistry, jsReadyState, sendLog, jsEvents>>

idVars == <<idsPc, idsLocal, idsLog>>

bridgeVars == <<nodeIdCounter, chan, prodPc, allocLog, recvLog, nativeLog, retLog, prefill>>

\* The state of the scenarios that run beside the engine.
extVars == <<extensions>>

ctorVars == <<earlyEvents>>

dropVars == <<rxDropped>>

styleVars == <<styleIn, styleFn, styleOut, stylePc>>

timerVars == <<timers, timerLog>>

\* The state no command's evaluation touches.
escVars == <<escIn, escOut, escPc>>

evalSideVars == <<resolveVars, idVars, extVars, ctorVars, dropVars, styleVars, escVars>>

sideVars == <<evalSideVars, bridgeVars, timerVars>>

vars == <<engineVars, loaderVars, sideVars, socketVars>>

Hosts == {"h1", "h2"}

\* JsEngineBuilder::extensions, as added by with_extension.
BuilderExtensions == <<"websocket", "react">>

\* The extensions whose register returns an error; WebSocketExtension and
\* ReactJsExtension always return Ok(()).
Faulty == {"faulty"}

\* A build that goes on to the next extension after an error.
RegisterAllKeepGoing(exts) == [done |-> exts, ok |-> TRUE]

\* for extension in extensions { extension.register(..)?; }: the registers
\* invoked, in order, and whether the loop reached its end; the first error
\* returns from build_context with the later extensions not registered.
RegisterAll(exts) ==
    LET bad == {i \in DOMAIN exts : exts[i] \in Faulty}
    IN  IF bad = {} THEN [done |-> exts, ok |-> TRUE]
        ELSE [done |-> SubSeq(exts, 1, Min(bad)), ok |-> FALSE]

NoCmd == [id |-> 0, by |-> "none", kind |-> "none", name |-> <<>>, src |-> SrcOk,
          ext |-> "none"]

Event(id, ev) == [id |-> id, ev |-> ev]

\* A send that puts the command on the channel although the send failed.
ClientSendRetry(by, kind, name, src, ext) ==
    LET cmd == [id |-> Len(callLog) + 1, by |-> by, kind |-> kind, name |-> name,
                src |-> src, ext |-> ext]
    IN  /\ callLog' = Append(callLog, [cmd |-> cmd, ok |-> receiverAlive])
        /\ queue' = Append(queue, cmd)

(***************************************************************************)
(* JsEngineClient: every method is one send on the channel.  A send fails  *)
(* when the receiver is gone; the failure is logged and the call returns.  *)
(***************************************************************************)
ClientSend(by, kind, name, src, ext) ==
    LET cmd == [id |-> Len(callLog) + 1, by |-> by, kind |-> kind, name |-> name,
                src |-> src, ext |-> ext]
    IN  /\ callLog' = Append(callLog, [cmd |-> cmd, ok |-> receiverAlive])
        /\ queue' = IF receiverAlive THEN Append(queue, cmd) ELSE queue

\* JsEngineClient::execute
ClientExecute(by, src) == ClientSend(by, "Execute", <<>>, src, "none")

\* JsEngineClient::load_esm_module
ClientLoadEsmModule(by, name, src) == ClientSend(by, "LoadEsmModule", name, src, "none")

\* JsEngineClient::flush_event_loop
ClientFlushEventLoop(by) == ClientSend(by, "FlushEventLoop", <<>>, SrcOk, "none")

\* JsEngineClient::register_extension
ClientRegisterExtension(by, ext) == ClientSend(by, "RegisterExtension", <<>>, SrcOk, ext)

\* JsEngineClient::shutdown
ClientShutdown(by) == ClientSend(by, "Shutdown", <<>>, SrcOk, "none")

\* The calls made by host threads so far.
HostCalls == Cardinality({i \in DOMAIN callLog : callLog[i].cmd.by \in Hosts})

HostFrame ==
    UNCHANGED <<receiverAlive, workerPc, cur, exitCause, registered, ctxAccess, execLog,
                loaderVars, sideVars, socketVars>>

HostExecute(h, src) ==
    /\ HostCalls < MaxCmds
    /\ ClientExecute(h, src)
    /\ HostFrame

HostLoadEsmModule(h, name, src) ==
    /\ HostCalls < MaxCmds
    /\ ClientLoadEsmModule(h, name, src)
    /\ HostFrame

HostFlushEventLoop(h) ==
    /\ HostCalls < MaxCmds
    /\ ClientFlushEventLoop(h)
    /\ HostFrame

HostRegisterExtension(h, ext) ==
    /\ HostCalls < MaxCmds
    /\ ClientRegisterExtension(h, ext)
    /\ HostFrame

HostShutdown(h) ==
    /\ HostCalls < MaxCmds
    /\ ClientShutdown(h)
    /\ HostFrame


(***************************************************************************)
(* The worker thread: run_js_loop.                                         *)
(***************************************************************************)
\* A receive that takes the newest command instead of the oldest.
RecvNewest(q) == [cmd |-> q[Len(q)], rest |-> SubSeq(q, 1, Len(q) - 1)]

\* A receive that serves the host threads' commands before socket events.
RecvHostFirst(q) ==
    LET hs == {i \in DOMAIN q : q[i].by \in Hosts}
        i == IF hs = {} THEN 1 ELSE Min(hs)
    IN  [cmd |-> q[i], rest |-> SubSeq(q, 1, i - 1) \o SubSeq(q, i + 1, Len(q))]

\* receiver.recv(): the oldest command of the channel.
Recv(q) == [cmd |-> Head(q), rest |-> Tail(q)]

\* A loop whose Shutdown arm does not break.
ArmOfNoBreak(kind) ==
    IF kind \in {"Shutdown", "FlushEventLoop"} THEN "flush" ELSE "eval"

\* The match arm a command is handled by: Shutdown breaks out of the loop,
\* Tick/FlushEventLoop only flushes, the others evaluate first.
ArmOf(kind) ==
    IF kind = "Shutdown" THEN "exiting"
    ELSE IF kind = "FlushEventLoop" THEN "flush"
    ELSE "eval"

\* The imports a source asks for once it is evaluated; a source evaluated by
\* Execute or parsed by LoadEsmModule has no path, so no referrer.
ImportJobs(src) ==
    IF src.parses
    THEN [i \in 1..Len(src.imports) |->
            [referrer |-> NoReferrer, specifier |-> src.imports[i]]]
    ELSE <<>>

\* A lookup that always misses.
CacheHitNever(c, referrer, specifier) == FALSE

\* A lookup made with the specifier as written, before resolving it.
CacheHitRaw(c, referrer, specifier) == specifier \in DOMAIN c

\* self.local_modules.borrow().get(&resolved_specifier)
CacheHit(c, referrer, specifier) ==
    ResolveSpecifier(referrer, specifier).key \in DOMAIN c

\* HashMap::insert of FetchModuleLoader::insert: an existing entry is replaced.
CacheInsert(c, key, unit) ==
    [k \in DOMAIN c \cup {key} |-> IF k = key THEN unit ELSE c[k]]

LocalUnit(id) == [origin |-> "local", n |-> id]

NetUnit(n) == [origin |-> "net", n |-> n]

\* build_context: the runtime extensions, then every builder extension in
\* the order it was added.  A worker whose context could not be built has
\* nothing to run commands in, and ends.
WorkerStart ==
    /\ workerPc = "starting"
    /\ LET built == RegisterAll(extensions)
       IN  /\ registered' = built.done
           /\ workerPc' = IF built.ok THEN "idle" ELSE "exiting"
           /\ exitCause' = IF built.ok THEN exitCause ELSE "build_failed"
    /\ ctxAccess' = ctxAccess \cup {"worker"}
    /\ UNCHANGED <<queue, receiverAlive, cur, callLog, execLog,
                   loaderVars, sideVars, socketVars>>

\* loop { match receiver.recv() { ... } }: block until a command arrives.
WorkerRecv ==
    /\ workerPc = "idle"
    /\ queue # <<>>
    /\ LET r == Recv(queue)
       IN  /\ queue' = r.rest
           /\ cur' = r.cmd
           /\ execLog' = Append(execLog, Event(r.cmd.id, "start"))
           /\ workerPc' = ArmOf(r.cmd.kind)
           /\ exitCause' = IF r.cmd.kind = "Shutdown" THEN "shutdown" ELSE exitCause
    /\ UNCHANGED <<receiverAlive, registered, ctxAccess, callLog, loaderVars,
                   sideVars, socketVars>>

\* A fetch_add that returns the counter and leaves it as it was.
FetchAddStale(c) == [old |-> c, new |-> c]

\* AtomicU32/AtomicU64::fetch_add(1, Ordering::SeqCst): one atomic step that
\* returns the old value and stores the old value plus one.
FetchAdd(c) == [old |-> c, new |-> c + 1]

(***************************************************************************)
(* The host bridge: ReactClient, one bounded channel per bridge, and the   *)
(* node id counter that all bridges share.                                 *)
(***************************************************************************)
Bridges == {"b1", "b2"}

\* The threads that make native calls: the worker of each engine.
Producers == {"p1", "p2"}

\* ReactClientProto, as far as ids matter.
Msg(kind, node_id) == [kind |-> kind, node_id |-> node_id]

NoCall == [pc |-> "idle", bridge |-> "none", msg |-> Msg("none", 0)]

CreateKinds == {"CreateNode", "CreateText"}

OtherKinds == {"AppendChild", "UpdateNode", "DestroyNode"}

\* A channel that takes a message whatever it holds.
CanSendUnbounded(c) == TRUE

\* SyncSender::send returns once the message is in the buffer, and blocks
\* while the buffer holds its capacity.
CanSend(c) == Len(c) < BridgeCapacity

\* The call producer p is inside: its place in nativeLog.
CallOf(p) == Max({i \in DOMAIN nativeLog : nativeLog[i].by = p})

\* A create that returns the counter as it is when the send has returned.
ReturnValueReread(msg) == IF msg.kind \in CreateKinds THEN nodeIdCounter ELSE 0

\* What the native function hands back to the script: create_node and
\* create_text return the node_id they put in the message, the others
\* return undefined (0 here).
ReturnValue(msg) == IF msg.kind \in CreateKinds THEN msg.node_id ELSE 0

\* The engine worker as a caller of the bridge: its ReactClient clone sends
\* on the channel of the application's one bridge.
WorkerProducer == "p1"

WorkerBridge == "b1"

\* __react_create_node called by the script being evaluated, up to the
\* send: the worker takes the id and is inside ReactClient::create_node.
ScriptCreateNode ==
    LET fa == FetchAdd(nodeIdCounter)
        node_id == fa.old + 1
        p == WorkerProducer
        b == WorkerBridge
    IN  /\ nodeIdCounter' = fa.new
        /\ allocLog' = Append(allocLog, [by |-> p, bridge |-> b, id |-> node_id])
        /\ prodPc' = [prodPc EXCEPT ![p] = [pc |-> "send", bridge |-> b,
                                            msg |-> Msg("CreateNode", node_id)]]
        /\ nativeLog' = Append(nativeLog, [by |-> p, bridge |-> b,
                                           msg |-> Msg("CreateNode", node_id)])
        /\ UNCHANGED <<chan, recvLog, retLog, prefill>>

(***************************************************************************)
(* The WebSocket shim and its native functions, as run by a script that    *)
(* the worker evaluates.                                                   *)
(***************************************************************************)
\* WebSocketManager::connect: a fresh id, its handle stored, its thread
\* spawned.
ManagerConnect(valid) ==
    /\ nextId' = FetchAdd(nextId).new
    /\ connections' = connections \cup {FetchAdd(nextId).old}
    /\ readyState' = Append(readyState, WS_CONNECTING)
    /\ outbound' = Append(outbound, <<>>)
    /\ auxPc' = Append(auxPc, "connect")
    /\ auxCode' = Append(auxCode, 0)
    /\ sendPc' = Append(sendPc, "off")
    /\ frames' = Append(frames, <<>>)
    /\ wire' = Append(wire, <<>>)
    /\ urlValid' = Append(urlValid, valid)

\* function WebSocket(url): this._id = __ws_connect(url);
\* wsRegistry[this._id] = this.
ScriptNew(valid) ==
    /\ ManagerConnect(valid)
    /\ wsRegistry' = wsRegistry \cup {nextId}
    /\ jsReadyState' = Append(jsReadyState, WS_CONNECTING)
    /\ UNCHANGED <<execLog, sendLog, jsEvents>>

\* function WebSocket(url) up to `this._id = __ws_connect(url)`: the
\* object has _readyState 0, the connection has its id and its thread, and
\* the object is not yet in wsRegistry.
ScriptNewConnect(valid) ==
    /\ ManagerConnect(valid)
    /\ jsReadyState' = Append(jsReadyState, WS_CONNECTING)
    /\ UNCHANGED <<execLog, wsRegistry, sendLog, jsEvents>>

\* The receiving end of a connection's outbound channel exists from connect
\* until the thread that owns it returns or the send task that took it ends.
RxAlive(id) ==
    \/ sendPc[id] = "run"
    \/ sendPc[id] = "off" /\ auxPc[id] # "done"

\* A send that does not look at the ready-state.
ManagerSendResultUnchecked(id) ==
    IF id \notin connections THEN "not_found"
    ELSE IF RxAlive(id) THEN "queued"
    ELSE "send_failed"

\* WebSocketManager::send: what the call returns.
ManagerSendResult(id) ==
    IF id \notin connections THEN "not_found"
    ELSE IF readyState[id] # WS_OPEN THEN "not_open"
    ELSE IF RxAlive(id) THEN "queued"
    ELSE "send_failed"

\* What a send is recorded with: the table, the state and the length of the
\* outbound queue as the call found them.
SendRecord(id, result) ==
    [id |-> id, msg |-> cur.id, result |-> result,
     present |-> id \in connections,
     state |-> IF id \in DOMAIN readyState THEN readyState[id] ELSE WS_CLOSED,
     pending |-> IF id \in DOMAIN outbound THEN Len(outbound[id]) ELSE 0]

\* __ws_send(id, data): WebSocketManager::send, its Err logged; the call
\* returns undefined either way.
NativeSend(id) ==
    LET result == ManagerSendResult(id)
    IN  /\ sendLog' = Append(sendLog, SendRecord(id, result))
        /\ outbound' = IF result = "queued"
                       THEN [outbound EXCEPT ![id] = Append(@, cur.id)]
                       ELSE outbound
        /\ UNCHANGED <<execLog, nextId, connections, readyState, auxPc, auxCode,
                       sendPc, frames, wire, urlValid, wsRegistry, jsReadyState,
                       jsEvents>>

\* WebSocket.prototype.send: it throws unless the object's _readyState is
\* 1, and calls __ws_send otherwise.
ScriptSend(id) ==
    IF id \notin DOMAIN jsReadyState
    THEN /\ execLog' = Append(execLog, Event(cur.id, "error"))
         /\ UNCHANGED socketVars
    ELSE IF jsReadyState[id] # WS_OPEN
    THEN /\ execLog' = Append(execLog, Event(cur.id, "error"))
         /\ sendLog' = Append(sendLog, SendRecord(id, "throw"))
         /\ UNCHANGED <<nextId, connections, readyState, outbound, auxPc, auxCode, sendPc,
                        frames, wire, urlValid, wsRegistry, jsReadyState, jsEvents>>
    ELSE NativeSend(id)

\* A close that marks the connection Closing and leaves it in the table.
NativeCloseKeepsRecord(id) ==
    /\ connections' = connections
    /\ readyState' = IF id \in connections
                     THEN [readyState EXCEPT ![id] = WS_CLOSING]
                     ELSE readyState
    /\ UNCHANGED <<execLog, nextId, outbound, auxPc, auxCode, sendPc, frames, wire,
                   urlValid, wsRegistry, sendLog, jsEvents>>

\* __ws_close(id, code, reason): WebSocketManager::close removes the handle
\* and stores Closing in its state; an id that is not in the table is left
\* alone.
NativeClose(id) ==
    /\ connections' = connections \ {id}
    /\ readyState' = IF id \in connections
                     THEN [readyState EXCEPT ![id] = WS_CLOSING]
                     ELSE readyState
    /\ UNCHANGED <<execLog, nextId, outbound, auxPc, auxCode, sendPc, frames, wire,
                   urlValid, wsRegistry, sendLog, jsEvents>>

\* WebSocket.prototype.close: nothing for an object that is Closing or
\* Closed; otherwise _readyState = 2 and __ws_close.
ScriptClose(id) ==
    IF id \notin DOMAIN jsReadyState
    THEN /\ execLog' = Append(execLog, Event(cur.id, "error"))
         /\ UNCHANGED socketVars
    ELSE IF jsReadyState[id] \in {WS_CLOSING, WS_CLOSED}
    THEN UNCHANGED <<execLog, socketVars>>
    ELSE /\ jsReadyState' = [jsReadyState EXCEPT ![id] = WS_CLOSING]
         /\ NativeClose(id)

\* __ws_dispatch_event(id, eventType, eventData): an id that is not in
\* wsRegistry is warned about and dropped.
ScriptDispatchEvent(w) ==
    LET known == w.id \in wsRegistry
    IN  /\ jsEvents' = Append(jsEvents, [id |-> w.id, ev |-> w.ev, code |-> w.code,
                                        cmd |-> cur.id, delivered |-> known])
        /\ jsReadyState' = IF known /\ w.ev = "open"
                           THEN [jsReadyState EXCEPT ![w.id] = WS_OPEN]
                           ELSE IF known /\ w.ev = "close"
                           THEN [jsReadyState EXCEPT ![w.id] = WS_CLOSED]
                           ELSE jsReadyState
        /\ wsRegistry' = IF w.ev = "close" THEN wsRegistry \ {w.id} ELSE wsRegistry
        /\ UNCHANGED <<execLog, nextId, connections, readyState, outbound, auxPc, auxCode,
                       sendPc, frames, wire, urlValid, sendLog>>

\* Ok(JsCommand::Execute { source }): context.eval, its error logged.
ExecuteArm ==
    /\ CASE cur.src.ws.op = "none" ->
               /\ execLog' = IF cur.src.parses /\ ~cur.src.throws THEN execLog
                             ELSE Append(execLog, Event(cur.id, "error"))
               /\ UNCHANGED socketVars
         [] cur.src.ws.op = "new" -> ScriptNew(cur.src.ws.valid)
         [] cur.src.ws.op = "new_steps" -> ScriptNewConnect(cur.src.ws.valid)
         [] cur.src.ws.op = "send" -> ScriptSend(cur.src.ws.id)
         [] cur.src.ws.op = "native_send" -> NativeSend(cur.src.ws.id)
         [] cur.src.ws.op = "close" -> ScriptClose(cur.src.ws.id)
         [] cur.src.ws.op = "native_close" ->
               NativeClose(cur.src.ws.id) /\ UNCHANGED jsReadyState
         [] cur.src.ws.op = "dispatch" -> ScriptDispatchEvent(cur.src.ws)
         [] cur.src.ws.op \in {"set_timeout", "create_node"} ->
               UNCHANGED <<execLog, socketVars>>
    /\ IF cur.src.ws.op = "set_timeout"
       THEN /\ timers' = Append(timers, [by |-> cur.id, st |-> "waiting"])
            /\ UNCHANGED timerLog
       ELSE UNCHANGED timerVars
    /\ IF cur.src.ws.op = "create_node" THEN ScriptCreateNode ELSE UNCHANGED bridgeVars
    /\ jobs' = jobs \o ImportJobs(cur.src)
    /\ workerPc' = IF cur.src.ws.op = "create_node" THEN "native"
                   ELSE IF cur.src.ws.op = "new_steps" THEN "ctor"
                   ELSE "flush"
    /\ UNCHANGED <<cache, registered, exitCause>>

\* The arm without its loader.insert(name, module).
LoadEsmModuleArmNoInsert ==
    IF ~cur.src.parses
    THEN /\ workerPc' = "exiting"
         /\ exitCause' = "panic"
         /\ execLog' = Append(execLog, Event(cur.id, "panic"))
         /\ UNCHANGED <<jobs, cache, registered, socketVars>>
    ELSE /\ jobs' = jobs \o ImportJobs(cur.src)
         /\ workerPc' = "flush"
         /\ UNCHANGED <<cache, execLog, registered, exitCause, socketVars>>

\* Ok(JsCommand::LoadEsmModule { name, source }): Module::parse(..).unwrap(),
\* load_link_evaluate with its promise dropped, then loader.insert(name, ..).
LoadEsmModuleArm ==
    IF ~cur.src.parses
    THEN /\ workerPc' = "exiting"
         /\ exitCause' = "panic"
         /\ execLog' = Append(execLog, Event(cur.id, "panic"))
         /\ UNCHANGED <<jobs, cache, registered, socketVars>>
    ELSE /\ jobs' = jobs \o ImportJobs(cur.src)
         /\ cache' = CacheInsert(cache, cur.name, LocalUnit(cur.id))
         /\ workerPc' = "flush"
         /\ UNCHANGED <<execLog, registered, exitCause, socketVars>>

\* JsCommand::RegisterExtension { extension }: the extension's register is
\* called on the live context.
RegisterExtensionArm ==
    /\ registered' = Append(registered, cur.ext)
    /\ workerPc' = "flush"
    /\ UNCHANGED <<jobs, cache, execLog, exitCause, socketVars>>

WorkerEval ==
    /\ workerPc = "eval"
    /\ CASE cur.kind = "Execute" -> ExecuteArm
         [] cur.kind = "LoadEsmModule" ->
               LoadEsmModuleArm /\ UNCHANGED <<bridgeVars, timerVars>>
         [] cur.kind = "RegisterExtension" ->
               RegisterExtensionArm /\ UNCHANGED <<bridgeVars, timerVars>>
    /\ ctxAccess' = ctxAccess \cup {"worker"}
    /\ UNCHANGED <<queue, receiverAlive, cur, callLog, importLog, fetchLog,
                   evalSideVars>>

\* A fetch handed to the runtime while the worker goes back to its loop.
FetchSpawned == "idle"

\* self.runtime.block_on(..): the calling thread waits inside the call.
FetchWait == "fetching"

\* load_imported_module, up to the fetch: resolve, then look the resolved
\* key up in the cache; a miss starts the blocking fetch.
WorkerRunJob ==
    /\ workerPc = "flush"
    /\ jobs # <<>>
    /\ LET job == Head(jobs)
           key == ResolveSpecifier(job.referrer, job.specifier).key
           hit == CacheHit(cache, job.referrer, job.specifier)
       IN  /\ importLog' = Append(importLog, [key |-> key, cmd |-> cur.id, hit |-> hit])
           /\ IF hit
              THEN /\ jobs' = Tail(jobs)
                   /\ UNCHANGED <<workerPc, fetchLog>>
              ELSE /\ fetchLog' = Append(fetchLog,
                                         [key |-> key, cmd |-> cur.id, result |-> "pending"])
                   /\ workerPc' = FetchWait
                   /\ UNCHANGED jobs
    /\ ctxAccess' = ctxAccess \cup {"worker"}
    /\ UNCHANGED <<queue, receiverAlive, cur, exitCause, registered, callLog,
                   execLog, cache, sideVars, socketVars>>

FetchOutcomes == {"ok", "fetch_error", "body_error", "parse_error"}

\* A fetch whose failure is unwrapped instead of returned: the worker panics.
WorkerFetchReturnUnwrap(outcome) ==
    /\ workerPc = "fetching"
    /\ LET n == Len(fetchLog)
           key == fetchLog[n].key
       IN  /\ outcome = "ok" => UrlParse(key).ok
           /\ fetchLog' = [fetchLog EXCEPT ![n].result = outcome]
           /\ IF outcome = "ok"
              THEN /\ cache' = CacheInsert(cache, key, NetUnit(n))
                   /\ jobs' = Tail(jobs)
                   /\ workerPc' = "flush"
                   /\ exitCause' = exitCause
              ELSE /\ cache' = cache
                   /\ jobs' = Tail(jobs)
                   /\ workerPc' = "exiting"
                   /\ exitCause' = "panic"
    /\ ctxAccess' = ctxAccess \cup {"worker"}
    /\ UNCHANGED <<queue, receiverAlive, cur, registered, callLog,
                   execLog, importLog, sideVars, socketVars>>

\* The fetch returns: reqwest::get, response.text, Module::parse, insert.
\* A key that is no URL cannot be fetched.
WorkerFetchReturn(outcome) ==
    /\ workerPc = "fetching"
    /\ LET n == Len(fetchLog)
           key == fetchLog[n].key
       IN  /\ outcome = "ok" => UrlParse(key).ok
           /\ fetchLog' = [fetchLog EXCEPT ![n].result = outcome]
           /\ IF outcome = "ok"
              THEN /\ cache' = CacheInsert(cache, key, NetUnit(n))
                   /\ jobs' = Tail(jobs) \o
                              [i \in 1..Len(NetImports(key)) |->
                                 [referrer |-> key, specifier |-> NetImports(key)[i]]]
              ELSE /\ cache' = cache
                   /\ jobs' = Tail(jobs)
    /\ workerPc' = "flush"
    /\ ctxAccess' = ctxAccess \cup {"worker"}
    /\ UNCHANGED <<queue, receiverAlive, cur, exitCause, registered, callLog,
                   execLog, importLog, sideVars, socketVars>>

\* The worker inside ReactClient::create_node: self.tx.send(..) returns
\* when the message is in the buffer, the native function returns the id
\* to the script, the evaluation ends and the arm goes on to its flush.
WorkerNativeReturn ==
    /\ workerPc = "native"
    /\ WorkerBridge \notin rxDropped
    /\ CanSend(chan[WorkerBridge])
    /\ chan' = [chan EXCEPT ![WorkerBridge] = Append(@, prodPc[WorkerProducer].msg)]
    /\ retLog' = Append(retLog, [by |-> WorkerProducer, bridge |-> WorkerBridge,
                                  call |-> CallOf(WorkerProducer),
                                  value |-> ReturnValue(prodPc[WorkerProducer].msg)])
    /\ prodPc' = [prodPc EXCEPT ![WorkerProducer] = NoCall]
    /\ workerPc' = "flush"
    /\ ctxAccess' = ctxAccess \cup {"worker"}
    /\ UNCHANGED <<queue, receiverAlive, cur, exitCause, registered, callLog, execLog,
                   loaderVars, socketVars, evalSideVars, timerVars, nodeIdCounter,
                   allocLog, recvLog, nativeLog, prefill>>

\* A failed send that is handed to the script as an error value: the
\* native function returns and the arm goes on to its flush.
WorkerNativeSendFailsReturned ==
    /\ workerPc = "native"
    /\ WorkerBridge \in rxDropped
    /\ retLog' = Append(retLog, [by |-> WorkerProducer, bridge |-> WorkerBridge,
                                  call |-> CallOf(WorkerProducer), value |-> -1])
    /\ prodPc' = [prodPc EXCEPT ![WorkerProducer] = NoCall]
    /\ workerPc' = "flush"
    /\ ctxAccess' = ctxAccess \cup {"worker"}
    /\ UNCHANGED <<queue, receiverAlive, cur, exitCause, registered, callLog, execLog,
                   loaderVars, socketVars, evalSideVars, timerVars, nodeIdCounter,
                   chan, allocLog, recvLog, nativeLog, prefill>>

\* The worker inside ReactClient::create_node with the receiver gone:
\* self.tx.send(..) returns Err, also to a sender that was blocked on a full
\* buffer, and .expect("Failed to send CreateNode") panics.  The panic
\* unwinds through the evaluation out of run_js_loop into the catch_unwind
\* of the thread's closure; no value reaches the script.
WorkerNativeSendFails ==
    /\ workerPc = "native"
    /\ WorkerBridge \in rxDropped
    /\ prodPc' = [prodPc EXCEPT ![WorkerProducer] = NoCall]
    /\ workerPc' = "exiting"
    /\ exitCause' = "panic"
    /\ execLog' = Append(execLog, Event(cur.id, "panic"))
    /\ ctxAccess' = ctxAccess \cup {"worker"}
    /\ UNCHANGED <<queue, receiverAlive, cur, registered, callLog,
                   loaderVars, socketVars, evalSideVars, timerVars, nodeIdCounter,
                   chan, allocLog, recvLog, nativeLog, retLog, prefill>>

\* A flush that runs timers wherever the worker is.
AnyPoint == workerPc \in {"idle", "eval", "flush"}

\* Jobs and timers are run by context.run_jobs(), which only
\* flush_event_loop calls.
FlushPoint == workerPc = "flush"

\* The clock reaches the time timer i was set for.
TimerDue(i) ==
    /\ timers[i].st = "waiting"
    /\ timers' = [timers EXCEPT ![i].st = "due"]
    /\ UNCHANGED <<engineVars, loaderVars, socketVars, evalSideVars, bridgeVars, timerLog>>

\* run_jobs runs a timer whose time has come.
WorkerRunTimer(i) ==
    /\ FlushPoint
    /\ timers[i].st = "due"
    /\ timers' = [timers EXCEPT ![i].st = "ran"]
    /\ timerLog' = Append(timerLog, [timer |-> i, cmd |-> cur.id, pc |-> workerPc])
    /\ ctxAccess' = ctxAccess \cup {"worker"}
    /\ UNCHANGED <<queue, receiverAlive, workerPc, cur, exitCause, registered, callLog,
                   execLog, loaderVars, socketVars, evalSideVars, bridgeVars>>

\* The id that the constructor being run got from __ws_connect: connect is
\* called on the worker only, so it is the last one given out.
CtorId == nextId - 1

\* A constructor that returns without the store into wsRegistry.
WorkerStoreInstanceSkipped ==
    /\ workerPc = "ctor"
    /\ workerPc' = "flush"
    /\ earlyEvents' = Append(earlyEvents,
                             [id |-> CtorId,
                              n |-> Cardinality({i \in DOMAIN callLog :
                                       /\ callLog[i].cmd.src.ws.op = "dispatch"
                                       /\ callLog[i].cmd.src.ws.id = CtorId
                                       /\ callLog[i].ok})])
    /\ UNCHANGED <<queue, receiverAlive, cur, exitCause, registered, ctxAccess, callLog,
                   execLog, loaderVars, resolveVars, idVars, bridgeVars, extVars,
                   dropVars, styleVars, escVars, timerVars, socketVars>>

\* wsRegistry[this._id] = this: the rest of the constructor, still inside
\* the evaluation of the command that runs `new WebSocket(url)`.
WorkerStoreInstance ==
    /\ workerPc = "ctor"
    /\ wsRegistry' = wsRegistry \cup {CtorId}
    /\ workerPc' = "flush"
    /\ earlyEvents' = Append(earlyEvents,
                             [id |-> CtorId,
                              n |-> Cardinality({i \in DOMAIN callLog :
                                       /\ callLog[i].cmd.src.ws.op = "dispatch"
                                       /\ callLog[i].cmd.src.ws.id = CtorId
                                       /\ callLog[i].ok})])
    /\ UNCHANGED <<queue, receiverAlive, cur, exitCause, registered, ctxAccess, callLog,
                   execLog, loaderVars, resolveVars, idVars, bridgeVars, extVars,
                   dropVars, styleVars, escVars, timerVars, nextId, connections, readyState,
                   outbound, auxPc, auxCode, sendPc, frames, wire, urlValid,
                   jsReadyState, sendLog, jsEvents>>

\* flush_event_loop has run every pending job: back to recv.
WorkerFlushDone ==
    /\ workerPc = "flush"
    /\ jobs = <<>>
    /\ execLog' = Append(execLog, Event(cur.id, "flush"))
    /\ workerPc' = "idle"
    /\ cur' = NoCmd
    /\ ctxAccess' = ctxAccess \cup {"worker"}
    /\ UNCHANGED <<queue, receiverAlive, exitCause, registered, callLog,
                   loaderVars, sideVars, socketVars>>

\* An exit that ends the connection threads with the worker.
AuxInterrupted == [id \in DOMAIN auxPc |-> "done"]

\* The connection threads when the worker returns: nothing joins, signals
\* or aborts them, they stay where they are.
AuxAfterExit == auxPc

\* The thread's closure returns (after break, or unwinding into
\* catch_unwind): the receiver is dropped with whatever it still holds.
WorkerExit ==
    /\ workerPc = "exiting"
    /\ workerPc' = "exited"
    /\ receiverAlive' = FALSE
    /\ queue' = <<>>
    /\ cur' = NoCmd
    /\ auxPc' = AuxAfterExit
    /\ UNCHANGED <<exitCause, registered, ctxAccess, callLog, execLog,
                   loaderVars, sideVars, nextId, connections, readyState, outbound,
                   auxCode, sendPc, frames, wire, urlValid, wsRegistry, jsReadyState,
                   sendLog, jsEvents>>

WorkerCore == WorkerStart \/ WorkerRecv \/ WorkerEval \/ WorkerFlushDone \/ WorkerExit

(***************************************************************************)
(* The thread that WebSocketManager::connect spawns for one connection.    *)
(***************************************************************************)
AuxThread(id) == "ws" \o ToString(id)

\* A dispatch that calls into the context from the connection's thread.
DispatchEventDirect(id, ev, code) ==
    /\ ctxAccess' = ctxAccess \cup {AuxThread(id)}
    /\ UNCHANGED <<queue, callLog>>

\* WebSocketManager::dispatch_event: the event is a script handed to
\* JsEngineClient::execute.
DispatchEvent(id, ev, code) ==
    /\ ClientExecute(AuxThread(id), SrcWsDispatch(id, ev, code))
    /\ UNCHANGED ctxAccess

AuxFrame ==
    UNCHANGED <<receiverAlive, workerPc, cur, exitCause, registered, execLog, loaderVars,
                sideVars, nextId, connections, outbound, urlValid, wsRegistry,
                jsReadyState, sendLog, jsEvents, wire>>

\* How the connection attempt ends: at Url::parse, TcpStream::connect,
\* into_client_request or client_async, or with the handshake done.
ConnectFailures == {"Invalid URL", "Connection failed", "Invalid request", "Handshake failed"}

\* The attempt ends: a failure stores Closed, a success stores Open.
AuxConnect(id, outcome) ==
    /\ auxPc[id] = "connect"
    /\ IF urlValid[id] THEN outcome # "Invalid URL" ELSE outcome = "Invalid URL"
    /\ IF outcome = "ok"
       THEN /\ readyState' = [readyState EXCEPT ![id] = WS_OPEN]
            /\ auxPc' = [auxPc EXCEPT ![id] = "opened"]
            /\ UNCHANGED auxCode
       ELSE /\ readyState' = [readyState EXCEPT ![id] = WS_CLOSED]
            /\ auxPc' = [auxPc EXCEPT ![id] = "error"]
            /\ auxCode' = [auxCode EXCEPT ![id] = 1006]
    /\ UNCHANGED <<queue, callLog, ctxAccess, sendPc, frames>>
    /\ AuxFrame

\* dispatch_event(.., "open", ..), then the send task is spawned and the
\* read loop entered.
AuxDispatchOpen(id) ==
    /\ auxPc[id] = "opened"
    /\ DispatchEvent(id, "open", 0)
    /\ auxPc' = [auxPc EXCEPT ![id] = "running"]
    /\ sendPc' = [sendPc EXCEPT ![id] = "run"]
    /\ UNCHANGED <<readyState, auxCode, frames>>
    /\ AuxFrame

\* A failure path that reports its error and returns without the close.
AuxDispatchErrorOnly(id) ==
    /\ auxPc[id] = "error"
    /\ DispatchEvent(id, "error", 0)
    /\ auxPc' = [auxPc EXCEPT ![id] = "done"]
    /\ UNCHANGED <<readyState, auxCode, sendPc, frames>>
    /\ AuxFrame

\* dispatch_event(.., "error", ..) of a failure path; its close follows.
AuxDispatchError(id) ==
    /\ auxPc[id] = "error"
    /\ DispatchEvent(id, "error", 0)
    /\ auxPc' = [auxPc EXCEPT ![id] = "close"]
    /\ UNCHANGED <<readyState, auxCode, sendPc, frames>>
    /\ AuxFrame

\* A close dispatch after which the thread is still about to dispatch it.
AuxDispatchCloseStays(id) ==
    /\ auxPc[id] = "close"
    /\ DispatchEvent(id, "close", auxCode[id])
    /\ UNCHANGED <<readyState, auxPc, auxCode, sendPc, frames>>
    /\ AuxFrame

\* dispatch_event(.., "close", ..), the thread's last act: it returns, or
\* breaks out of the read loop and aborts the send task.
AuxDispatchClose(id) ==
    /\ auxPc[id] = "close"
    /\ DispatchEvent(id, "close", auxCode[id])
    /\ auxPc' = [auxPc EXCEPT ![id] = "done"]
    /\ sendPc' = [sendPc EXCEPT ![id] = IF @ = "off" THEN "off" ELSE "stopped"]
    /\ UNCHANGED <<readyState, auxCode, frames>>
    /\ AuxFrame

\* The frames read.next() can yield; a close frame carries a code or none.
FrameKinds == {"text", "binary", "ping", "pong", "raw", "close", "close_empty", "error"}

\* A read loop that reports binary frames too.
TextAndBinaryFrames == {"text", "binary"}

\* Ok(Message::Text(text)) is the one arm that dispatches a message event;
\* the event carries the frame's data, here its place among the frames read.
TextFrames == {"text"}

\* A close frame reported as an abnormal closure.
PeerCloseCodeAbnormal(frame) == 1006

\* frame.map(|f| (f.code.into(), ..)).unwrap_or((1000, ..)): the code of
\* the peer's close frame (1001 stands for any code a peer sends), 1000
\* for a frame with no payload.
PeerCloseCode(frame) == IF frame = "close" THEN 1001 ELSE 1000

\* One turn of the read loop.
AuxRead(id, frame) ==
    /\ auxPc[id] = "running"
    /\ frames' = [frames EXCEPT ![id] = Append(@, frame)]
    /\ CASE frame \in TextFrames ->
               /\ DispatchEvent(id, "message", Len(frames[id]) + 1)
               /\ UNCHANGED <<readyState, auxPc, auxCode>>
         [] frame \in {"binary", "ping", "pong", "raw"} \ TextFrames ->
               UNCHANGED <<queue, callLog, ctxAccess, readyState, auxPc, auxCode>>
         [] frame \in {"close", "close_empty"} ->
               /\ readyState' = [readyState EXCEPT ![id] = WS_CLOSED]
               /\ auxPc' = [auxPc EXCEPT ![id] = "close"]
               /\ auxCode' = [auxCode EXCEPT ![id] = PeerCloseCode(frame)]
               /\ UNCHANGED <<queue, callLog, ctxAccess>>
         [] frame = "error" ->
               /\ readyState' = [readyState EXCEPT ![id] = WS_CLOSED]
               /\ auxPc' = [auxPc EXCEPT ![id] = "error"]
               /\ auxCode' = [auxCode EXCEPT ![id] = 1006]
               /\ UNCHANGED <<queue, callLog, ctxAccess>>
    /\ UNCHANGED sendPc
    /\ AuxFrame

\* read.next() yields None: the loop ends without an event, and the send
\* task is aborted.
AuxStreamEnd(id) ==
    /\ auxPc[id] = "running"
    /\ auxPc' = [auxPc EXCEPT ![id] = "done"]
    /\ sendPc' = [sendPc EXCEPT ![id] = "stopped"]
    /\ UNCHANGED <<queue, callLog, ctxAccess, readyState, auxCode, frames>>
    /\ AuxFrame

\* A send task that writes whatever the state is.
SendTaskIgnoresState(id, written) ==
    /\ sendPc[id] = "run"
    /\ outbound[id] # <<>>
    /\ outbound' = [outbound EXCEPT ![id] = Tail(@)]
    /\ wire' = [wire EXCEPT ![id] = Append(@, Head(outbound[id]))]
    /\ UNCHANGED <<engineVars, loaderVars, sideVars, nextId, connections, readyState,
                   auxPc, auxCode, sendPc, frames, urlValid, wsRegistry, jsReadyState,
                   sendLog, jsEvents>>

\* One turn of the send task: the next message is written while the state
\* is Open; any other state, a write error, or a channel with no sender
\* left ends the task.
SendTask(id, written) ==
    /\ sendPc[id] = "run"
    /\ IF outbound[id] # <<>>
       THEN /\ outbound' = [outbound EXCEPT ![id] = Tail(@)]
            /\ IF readyState[id] = WS_OPEN /\ written
               THEN /\ wire' = [wire EXCEPT ![id] = Append(@, Head(outbound[id]))]
                    /\ UNCHANGED sendPc
               ELSE /\ sendPc' = [sendPc EXCEPT ![id] = "stopped"]
                    /\ UNCHANGED wire
       ELSE /\ id \notin connections
            /\ written
            /\ sendPc' = [sendPc EXCEPT ![id] = "stopped"]
            /\ UNCHANGED <<outbound, wire>>
    /\ UNCHANGED <<engineVars, loaderVars, sideVars, nextId, connections, readyState,
                   auxPc, auxCode, frames, urlValid, wsRegistry, jsReadyState, sendLog,
                   jsEvents>>

(***************************************************************************)
(* WebSocketManager::connect called by several threads at once: the id is  *)
(* taken with fetch_add, then the handle is stored under the table's lock. *)
(***************************************************************************)
IdsThreads == {"t1", "t2", "t3"}

IdsFrame ==
    UNCHANGED <<engineVars, loaderVars, resolveVars, bridgeVars, extVars, ctorVars, dropVars, styleVars, escVars, timerVars,
                readyState, outbound,
                auxPc, auxCode, sendPc, frames, wire, urlValid, wsRegistry, jsReadyState,
                sendLog, jsEvents>>

\* let id = self.next_id.fetch_add(1, Ordering::SeqCst)
IdsFetchAdd(t) ==
    /\ idsPc[t] = "idle"
    /\ Len(idsLog) < MaxIdCalls
    /\ LET fa == FetchAdd(nextId)
       IN  /\ nextId' = fa.new
           /\ idsLocal' = [idsLocal EXCEPT ![t] = fa.old]
           /\ idsLog' = Append(idsLog, [by |-> t, id |-> fa.old])
    /\ idsPc' = [idsPc EXCEPT ![t] = "insert"]
    /\ UNCHANGED connections
    /\ IdsFrame

\* connections.insert(id, handle) under the lock; connect returns id.
IdsInsert(t) ==
    /\ idsPc[t] = "insert"
    /\ connections' = connections \cup {idsLocal[t]}
    /\ idsPc' = [idsPc EXCEPT ![t] = "idle"]
    /\ UNCHANGED <<nextId, idsLocal, idsLog>>
    /\ IdsFrame

(***************************************************************************)
(* The native calls of the host bridge made by threads of their own, and   *)
(* the host consumer.                                                      *)
(***************************************************************************)
BridgeFrame ==
    UNCHANGED <<engineVars, loaderVars, resolveVars, idVars, extVars, ctorVars, dropVars, styleVars, escVars, timerVars,
                socketVars, prefill>>

\* A next_id that hands out the counter as it was: fetch_add(1) without
\* the + 1.
NativeCreateFromZero(p, b, kind) ==
    /\ prodPc[p].pc = "idle"
    /\ Len(nativeLog) < prefill + MaxBridgeCalls
    /\ LET fa == FetchAdd(nodeIdCounter)
           node_id == fa.old
       IN  /\ nodeIdCounter' = fa.new
           /\ allocLog' = Append(allocLog, [by |-> p, bridge |-> b, id |-> node_id])
           /\ prodPc' = [prodPc EXCEPT ![p] = [pc |-> "send", bridge |-> b,
                                               msg |-> Msg(kind, node_id)]]
           /\ nativeLog' = Append(nativeLog, [by |-> p, bridge |-> b,
                                              msg |-> Msg(kind, node_id)])
    /\ UNCHANGED <<chan, recvLog, retLog>>
    /\ BridgeFrame

\* create_node / create_text, up to the send: next_id().
NativeCreate(p, b, kind) ==
    /\ prodPc[p].pc = "idle"
    /\ Len(nativeLog) < prefill + MaxBridgeCalls
    /\ LET fa == FetchAdd(nodeIdCounter)
           node_id == fa.old + 1
       IN  /\ nodeIdCounter' = fa.new
           /\ allocLog' = Append(allocLog, [by |-> p, bridge |-> b, id |-> node_id])
           /\ prodPc' = [prodPc EXCEPT ![p] = [pc |-> "send", bridge |-> b,
                                               msg |-> Msg(kind, node_id)]]
           /\ nativeLog' = Append(nativeLog, [by |-> p, bridge |-> b,
                                              msg |-> Msg(kind, node_id)])
    /\ UNCHANGED <<chan, recvLog, retLog>>
    /\ BridgeFrame

\* A destroy_node that gives the counter's last id back.
NativeOtherRecycle(p, b, kind, node_id) ==
    /\ prodPc[p].pc = "idle"
    /\ Len(nativeLog) < prefill + MaxBridgeCalls
    /\ node_id \in 1..nodeIdCounter
    /\ prodPc' = [prodPc EXCEPT ![p] = [pc |-> "send", bridge |-> b,
                                        msg |-> Msg(kind, node_id)]]
    /\ nativeLog' = Append(nativeLog, [by |-> p, bridge |-> b, msg |-> Msg(kind, node_id)])
    /\ nodeIdCounter' = IF kind = "DestroyNode" THEN nodeIdCounter - 1 ELSE nodeIdCounter
    /\ UNCHANGED <<allocLog, chan, recvLog, retLog>>
    /\ BridgeFrame

\* append_child, update_node, destroy_node, up to the send: no id is taken.
NativeOther(p, b, kind, node_id) ==
    /\ prodPc[p].pc = "idle"
    /\ Len(nativeLog) < prefill + MaxBridgeCalls
    /\ node_id \in 1..nodeIdCounter
    /\ prodPc' = [prodPc EXCEPT ![p] = [pc |-> "send", bridge |-> b,
                                        msg |-> Msg(kind, node_id)]]
    /\ nativeLog' = Append(nativeLog, [by |-> p, bridge |-> b, msg |-> Msg(kind, node_id)])
    /\ UNCHANGED <<nodeIdCounter, allocLog, chan, recvLog, retLog>>
    /\ BridgeFrame

\* A send that puts its message in front of the pending ones.
SyncSendFront(p) ==
    /\ prodPc[p].pc = "send"
    /\ CanSend(chan[prodPc[p].bridge])
    /\ chan' = [chan EXCEPT ![prodPc[p].bridge] = <<prodPc[p].msg>> \o @]
    /\ retLog' = Append(retLog, [by |-> p, bridge |-> prodPc[p].bridge, call |-> CallOf(p),
                                  value |-> ReturnValue(prodPc[p].msg)])
    /\ prodPc' = [prodPc EXCEPT ![p] = NoCall]
    /\ UNCHANGED <<nodeIdCounter, allocLog, recvLog, nativeLog>>
    /\ BridgeFrame

\* self.tx.send(..): the call returns when the message is in the buffer.
SyncSend(p) ==
    /\ prodPc[p].pc = "send"
    /\ prodPc[p].bridge \notin rxDropped
    /\ CanSend(chan[prodPc[p].bridge])
    /\ chan' = [chan EXCEPT ![prodPc[p].bridge] = Append(@, prodPc[p].msg)]
    /\ retLog' = Append(retLog, [by |-> p, bridge |-> prodPc[p].bridge, call |-> CallOf(p),
                                  value |-> ReturnValue(prodPc[p].msg)])
    /\ prodPc' = [prodPc EXCEPT ![p] = NoCall]
    /\ UNCHANGED <<nodeIdCounter, allocLog, recvLog, nativeLog>>
    /\ BridgeFrame

\* A consumer that takes the newest pending message.
ConsumerTryRecvNewest(b) ==
    /\ chan[b] # <<>>
    /\ recvLog' = [recvLog EXCEPT ![b] = Append(@, chan[b][Len(chan[b])])]
    /\ chan' = [chan EXCEPT ![b] = SubSeq(@, 1, Len(@) - 1)]
    /\ UNCHANGED <<nodeIdCounter, prodPc, allocLog, nativeLog, retLog>>
    /\ BridgeFrame

\* The host drops the ReactClientReceiver of bridge b: the channel is
\* disconnected and what it still held is dropped with it.
ConsumerDrop(b) ==
    /\ b \notin rxDropped
    /\ rxDropped' = rxDropped \cup {b}
    /\ chan' = [chan EXCEPT ![b] = <<>>]
    /\ UNCHANGED <<engineVars, loaderVars, resolveVars, idVars, extVars, ctorVars,
                   styleVars, escVars, timerVars, socketVars, nodeIdCounter, prodPc,
                   allocLog, recvLog, nativeLog, retLog, prefill>>

\* context.nodes of the root that bridge b feeds: handle_create_node and
\* handle_create_text insert the node_id of every create received.
HostNodes(b) ==
    {recvLog[b][k].node_id : k \in {j \in DOMAIN recvLog[b] : recvLog[b][j].kind \in CreateKinds}}

\* handle_append_child: the entity a parent_id stands for; 0 is the root
\* container, any other id is looked up in context.nodes.
ParentEntity(b, parent_id) ==
    IF parent_id = 0 THEN "root"
    ELSE IF parent_id \in HostNodes(b) THEN parent_id
    ELSE "none"

\* ReactClientReceiver::try_recv on a channel that holds a message.
ConsumerTryRecv(b) ==
    /\ chan[b] # <<>>
    /\ recvLog' = [recvLog EXCEPT ![b] = Append(@, Head(chan[b]))]
    /\ chan' = [chan EXCEPT ![b] = Tail(@)]
    /\ UNCHANGED <<nodeIdCounter, prodPc, allocLog, nativeLog, retLog>>
    /\ BridgeFrame

(***************************************************************************)
(* The resolution of one specifier, on inputs drawn from bounded sets.     *)
(***************************************************************************)
ResolveStep ==
    /\ rPc = "input"
    /\ rResolved' = ResolveSpecifier(rReferrer, rSpecifier)
    /\ rPc' = "done"
    /\ UNCHANGED <<rReferrer, rSpecifier, engineVars, loaderVars, socketVars, idVars,
                   bridgeVars, extVars, ctorVars, dropVars, styleVars, escVars, timerVars>>

(***************************************************************************)
(* One call of escape_json_string, on an input drawn from a bounded set.   *)
(***************************************************************************)
EscapeStep ==
    /\ escPc = "input"
    /\ escOut' = EscapeJsonString(escIn)
    /\ escPc' = "done"
    /\ UNCHANGED <<escIn, engineVars, loaderVars, socketVars, resolveVars, idVars,
                   bridgeVars, extVars, ctorVars, dropVars, styleVars, timerVars>>

(***************************************************************************)
(* One call of parse_val or parse_color, on an input drawn from a bounded  *)
(* set.                                                                    *)
(***************************************************************************)
ParseValStep ==
    /\ stylePc = "input"
    /\ styleFn = "val"
    /\ styleOut' = ParseVal(styleIn)
    /\ stylePc' = "done"
    /\ UNCHANGED <<styleIn, styleFn, engineVars, loaderVars, socketVars, resolveVars, idVars,
                   bridgeVars, extVars, ctorVars, dropVars, escVars, timerVars>>

ParseColorStep ==
    /\ stylePc = "input"
    /\ styleFn = "color"
    /\ styleOut' = ParseColor(styleIn)
    /\ stylePc' = "done"
    /\ UNCHANGED <<styleIn, styleFn, engineVars, loaderVars, socketVars, resolveVars, idVars,
                   bridgeVars, extVars, ctorVars, dropVars, escVars, timerVars>>

(***************************************************************************)
(* Specifications.                                                         *)
(***************************************************************************)
InitEngine ==
    /\ queue = <<>>
    /\ receiverAlive = TRUE
    /\ workerPc = "starting"
    /\ cur = NoCmd
    /\ exitCause = "none"
    /\ registered = <<>>
    /\ jobs = <<>>
    /\ cache = <<>>
    /\ ctxAccess = {}
    /\ callLog = <<>>
    /\ execLog = <<>>
    /\ importLog = <<>>
    /\ fetchLog = <<>>
    /\ timers = <<>>
    /\ timerLog = <<>>

InitSocket ==
    /\ nextId = 1
    /\ connections = {}
    /\ readyState = <<>>
    /\ outbound = <<>>
    /\ auxPc = <<>>
    /\ auxCode = <<>>
    /\ sendPc = <<>>
    /\ frames = <<>>
    /\ wire = <<>>
    /\ urlValid = <<>>
    /\ wsRegistry = {}
    /\ jsReadyState = <<>>
    /\ sendLog = <<>>
    /\ jsEvents = <<>>
    /\ earlyEvents = <<>>

InitIds ==
    /\ idsPc = [t \in IdsThreads |-> "idle"]
    /\ idsLocal = [t \in IdsThreads |-> 0]
    /\ idsLog = <<>>

InitBridge ==
    /\ nodeIdCounter = 0
    /\ chan = [b \in Bridges |-> <<>>]
    /\ prodPc = [p \in Producers |-> NoCall]
    /\ allocLog = <<>>
    /\ recvLog = [b \in Bridges |-> <<>>]
    /\ nativeLog = <<>>
    /\ retLog = <<>>
    /\ prefill = 0
    /\ rxDropped = {}

InitEscOff ==
    /\ escIn = <<>>
    /\ escOut = <<>>
    /\ escPc = "off"

InitStyleOff ==
    /\ styleIn = <<>>
    /\ styleFn = "none"
    /\ styleOut = ValAuto
    /\ stylePc = "off"

\* The builder was given the two extensions of the application.
InitExtensions == extensions = BuilderExtensions

Init ==
    /\ InitEngine
    /\ InitExtensions
    /\ InitStyleOff
    /\ InitEscOff
    /\ InitSocket
    /\ InitIds
    /\ InitBridge
    /\ rReferrer = NoReferrer
    /\ rSpecifier = <<>>
    /\ rResolved = [key |-> <<>>, how |-> "none"]
    /\ rPc = "off"

\* The engine protocol: two host threads send every kind of command.
EngineSources == {SrcOk, SrcThrow, SrcSyntax}

Next ==
    \/ \E h \in Hosts, src \in EngineSources : HostExecute(h, src)
    \/ \E h \in Hosts, src \in EngineSources : HostLoadEsmModule(h, NameMain, src)
    \/ \E h \in Hosts : HostFlushEventLoop(h)
    \/ \E h \in Hosts : HostRegisterExtension(h, "late")
    \/ \E h \in Hosts : HostShutdown(h)
    \/ WorkerCore

Spec == Init /\ [][Next]_vars

\* The module loader: one host thread sends scripts and modules that import.
LoaderScripts == {SrcImport(KeyA), SrcImport(KeyB), SrcImport(NameMain)}

LoaderModules == {SrcOk, SrcImport(KeyA)}

NextLoader ==
    \/ \E src \in LoaderScripts : HostExecute("h1", src)
    \/ \E name \in {NameMain, KeyB}, src \in LoaderModules :
          HostLoadEsmModule("h1", name, src)
    \/ HostShutdown("h1")
    \/ WorkerCore
    \/ WorkerRunJob
    \/ \E outcome \in FetchOutcomes : WorkerFetchReturn(outcome)

SpecLoader == Init /\ [][NextLoader]_vars

\* The WebSocket bridge: one host thread sends scripts that construct,
\* use and close sockets; every connection has its own thread.
NewCalls == Cardinality({i \in DOMAIN callLog : callLog[i].cmd.src.ws.op = "new"})

NextSocket ==
    \/ \E valid \in BOOLEAN :
          /\ HostCalls < MaxSocketCalls
          /\ NewCalls < MaxConns
          /\ HostExecute("h1", SrcWsNew(valid))
    \/ \E id \in 1..MaxConns :
          HostCalls < MaxSocketCalls /\ HostExecute("h1", SrcWsSend(id))
    \/ \E id \in 1..MaxConns :
          HostCalls < MaxSocketCalls /\ HostExecute("h1", SrcWsNativeSend(id))
    \/ \E id \in 1..MaxConns :
          HostCalls < MaxSocketCalls /\ HostExecute("h1", SrcWsClose(id))
    \/ \E id \in 1..MaxConns :
          HostCalls < MaxSocketCalls /\ HostExecute("h1", SrcWsNativeClose(id))
    \/ HostCalls < MaxSocketCalls /\ HostShutdown("h1")
    \/ WorkerCore
    \/ \E id \in DOMAIN auxPc, outcome \in ConnectFailures \cup {"ok"} :
          AuxConnect(id, outcome)
    \/ \E id \in DOMAIN auxPc : AuxDispatchOpen(id)
    \/ \E id \in DOMAIN auxPc : AuxDispatchError(id)
    \/ \E id \in DOMAIN auxPc : AuxDispatchClose(id)
    \/ \E id \in DOMAIN auxPc, frame \in FrameKinds :
          Len(frames[id]) < MaxFrames /\ AuxRead(id, frame)
    \/ \E id \in DOMAIN auxPc : AuxStreamEnd(id)
    \/ \E id \in DOMAIN auxPc, written \in BOOLEAN : SendTask(id, written)

SpecSocket == Init /\ [][NextSocket]_vars

\* Extension registration: the builder was given any list of up to
\* MaxExts extensions, one of which may be an extension whose register
\* fails; two host threads register further extensions on the live engine.
ExtNames == {"websocket", "react", "faulty"}

ExtLists == UNION {[1..n -> ExtNames] : n \in 0..MaxExts}

InitExt ==
    /\ InitEngine
    /\ InitSocket
    /\ InitIds
    /\ InitBridge
    /\ extensions \in ExtLists
    /\ InitStyleOff
    /\ InitEscOff
    /\ rReferrer = NoReferrer
    /\ rSpecifier = <<>>
    /\ rResolved = [key |-> <<>>, how |-> "none"]
    /\ rPc = "off"

NextExt ==
    \/ \E h \in Hosts, ext \in {"late1", "late2"} : HostRegisterExtension(h, ext)
    \/ HostExecute("h1", SrcOk)
    \/ HostShutdown("h1")
    \/ WorkerCore

SpecExt == InitExt /\ [][NextExt]_vars

\* Flush points: one host thread sends scripts that set timers and import
\* modules, modules, and FlushEventLoop commands, while the clock runs.
NextFlush ==
    \/ \E src \in {SrcSetTimeout, SrcImport(KeyB), SrcThrow} : HostExecute("h1", src)
    \/ HostLoadEsmModule("h1", NameMain, SrcImport(KeyB))
    \/ HostFlushEventLoop("h1")
    \/ HostShutdown("h1")
    \/ WorkerCore
    \/ WorkerRunJob
    \/ \E outcome \in {"ok", "fetch_error"} : WorkerFetchReturn(outcome)
    \/ \E i \in DOMAIN timers : TimerDue(i)
    \/ \E i \in DOMAIN timers : WorkerRunTimer(i)

SpecFlush == Init /\ [][NextFlush]_vars

\* Concurrent connects.
NextIds ==
    \/ \E t \in IdsThreads : IdsFetchAdd(t)
    \/ \E t \in IdsThreads : IdsInsert(t)

SpecIds == Init /\ [][NextIds]_vars

\* Bridge b1 observed from a fresh start or from a moment at which it
\* already holds one message less than its capacity.
BridgePrefill == {0, BridgeCapacity - 1}

\* The bridge after n create_node calls on b1 that the consumer has not
\* taken yet.
BridgeAfter(n) ==
    /\ prefill = n
    /\ nodeIdCounter = n
    /\ chan = [b \in Bridges |->
                 IF b = "b1" THEN [i \in 1..n |-> Msg("CreateNode", i)] ELSE <<>>]
    /\ prodPc = [p \in Producers |-> NoCall]
    /\ allocLog = [i \in 1..n |-> [by |-> "p1", bridge |-> "b1", id |-> i]]
    /\ nativeLog = [i \in 1..n |-> [by |-> "p1", bridge |-> "b1",
                                     msg |-> Msg("CreateNode", i)]]
    /\ retLog = [i \in 1..n |-> [by |-> "p1", bridge |-> "b1", call |-> i, value |-> i]]
    /\ recvLog = [b \in Bridges |-> <<>>]
    /\ rxDropped = {}

InitBridgeScenario == \E n \in BridgePrefill : BridgeAfter(n)

\* The engine with its bridge full: 256 creates the consumer has not taken.
InitStall ==
    /\ InitEngine
    /\ InitExtensions
    /\ InitStyleOff
    /\ InitEscOff
    /\ InitSocket
    /\ InitIds
    /\ BridgeAfter(BridgeCapacity)
    /\ rReferrer = NoReferrer
    /\ rSpecifier = <<>>
    /\ rResolved = [key |-> <<>>, how |-> "none"]
    /\ rPc = "off"

InitBridgeSpec ==
    /\ InitEngine
    /\ InitExtensions
    /\ InitStyleOff
    /\ InitEscOff
    /\ InitSocket
    /\ InitIds
    /\ InitBridgeScenario
    /\ rReferrer = NoReferrer
    /\ rSpecifier = <<>>
    /\ rResolved = [key |-> <<>>, how |-> "none"]
    /\ rPc = "off"

\* The node the calls that take no id are made about.
BridgeTargets == IF nodeIdCounter = 0 THEN {} ELSE {nodeIdCounter}

NextBridge ==
    \/ \E p \in Producers, b \in Bridges, kind \in CreateKinds : NativeCreate(p, b, kind)
    \/ \E p \in Producers, b \in Bridges, kind \in OtherKinds, node_id \in BridgeTargets :
          NativeOther(p, b, kind, node_id)
    \/ \E p \in Producers : SyncSend(p)
    \/ \E b \in Bridges : Len(recvLog[b]) < MaxBridgeRecvs /\ ConsumerTryRecv(b)

\* The host bridge from a fresh start: two threads, two bridges, every kind
\* of call.
SpecBridge == Init /\ [][NextBridge]_vars

\* Bridge b1 close to its capacity: two threads create and update nodes on
\* it while the consumer takes messages from it.
NextBridgeFull ==
    \/ \E p \in Producers, kind \in CreateKinds : NativeCreate(p, "b1", kind)
    \/ \E p \in Producers, node_id \in BridgeTargets :
          NativeOther(p, "b1", "UpdateNode", node_id)
    \/ \E p \in Producers : SyncSend(p)
    \/ Len(recvLog["b1"]) < MaxBridgeRecvs /\ ConsumerTryRecv("b1")

SpecBridgeFull == InitBridgeSpec /\ [][NextBridgeFull]_vars

\* Sending on one connection: a host thread opens a socket and sends on it,
\* through the shim or the native function; the peer sends a text or a close
\* frame or ends the stream; the send task writes, or fails to write.
NextSend ==
    \/ NewCalls < 1 /\ HostExecute("h1", SrcWsNew(TRUE))
    \/ HostExecute("h1", SrcWsNativeSend(1))
    \/ HostExecute("h1", SrcWsSend(1))
    \/ HostShutdown("h1")
    \/ WorkerCore
    \/ \E id \in DOMAIN auxPc : AuxConnect(id, "ok")
    \/ \E id \in DOMAIN auxPc : AuxDispatchOpen(id)
    \/ \E id \in DOMAIN auxPc, frame \in {"text", "close"} :
          Len(frames[id]) < MaxFrames /\ AuxRead(id, frame)
    \/ \E id \in DOMAIN auxPc : AuxDispatchClose(id)
    \/ \E id \in DOMAIN auxPc : AuxStreamEnd(id)
    \/ \E id \in DOMAIN auxPc, written \in BOOLEAN : SendTask(id, written)

SpecSend == Init /\ [][NextSend]_vars

\* Inbound frames: one connection reads frames of every kind while the
\* worker executes the events and the script may close the socket.
NextFrames ==
    \/ NewCalls < 1 /\ HostExecute("h1", SrcWsNew(TRUE))
    \/ HostExecute("h1", SrcWsClose(1))
    \/ HostShutdown("h1")
    \/ WorkerCore
    \/ \E id \in DOMAIN auxPc : AuxConnect(id, "ok")
    \/ \E id \in DOMAIN auxPc : AuxDispatchOpen(id)
    \/ \E id \in DOMAIN auxPc, frame \in FrameKinds :
          Len(frames[id]) < MaxReads /\ AuxRead(id, frame)
    \/ \E id \in DOMAIN auxPc : AuxDispatchError(id)
    \/ \E id \in DOMAIN auxPc : AuxDispatchClose(id)

SpecFrames == Init /\ [][NextFrames]_vars

\* A socket that its script closes, with the engine worker and the
\* connection thread running for ever: no Shutdown is sent and no command
\* panics, so the worker never leaves its loop.  The worker takes its next
\* step whenever it has one, and so does the connection thread for the
\* steps that are its own (the end of the connection attempt and its
\* dispatches).  What read.next() yields, and when, is the peer's doing:
\* the peer may stay silent for ever.
WorkerLoop == WorkerStart \/ WorkerRecv \/ WorkerEval \/ WorkerFlushDone

\* The steps of the connection thread that wait for nothing but the thread
\* itself.
AuxOwnStep(id) ==
    /\ id \in DOMAIN auxPc
    /\ \/ \E outcome \in ConnectFailures \cup {"ok"} : AuxConnect(id, outcome)
       \/ AuxDispatchOpen(id)
       \/ AuxDispatchError(id)
       \/ AuxDispatchClose(id)

NextClosing ==
    \/ NewCalls < 1 /\ HostExecute("h1", SrcWsNew(TRUE))
    \/ HostExecute("h1", SrcWsClose(1))
    \/ WorkerLoop
    \/ AuxOwnStep(1)
    \/ \E id \in DOMAIN auxPc, frame \in FrameKinds :
          Len(frames[id]) < MaxReads /\ AuxRead(id, frame)
    \/ \E id \in DOMAIN auxPc : AuxStreamEnd(id)

SpecClosing ==
    /\ Init
    /\ [][NextClosing]_vars
    /\ WF_vars(WorkerLoop)
    /\ WF_vars(AuxOwnStep(1))

\* The constructor against its own connection thread: the thread may end
\* its attempt, dispatch and read at any moment after __ws_connect has
\* spawned it, also before the constructor has stored the instance.
CtorCalls == Cardinality({i \in DOMAIN callLog : callLog[i].cmd.src.ws.op = "new_steps"})

NextCtor ==
    \/ \E valid \in BOOLEAN :
          CtorCalls < MaxConns /\ HostExecute("h1", SrcWsNewSteps(valid))
    \/ HostShutdown("h1")
    \/ WorkerCore
    \/ WorkerStoreInstance
    \/ \E id \in DOMAIN auxPc, outcome \in ConnectFailures \cup {"ok"} :
          AuxConnect(id, outcome)
    \/ \E id \in DOMAIN auxPc : AuxDispatchOpen(id)
    \/ \E id \in DOMAIN auxPc : AuxDispatchError(id)
    \/ \E id \in DOMAIN auxPc : AuxDispatchClose(id)
    \/ \E id \in DOMAIN auxPc, frame \in FrameKinds :
          Len(frames[id]) < MaxFrames /\ AuxRead(id, frame)

SpecCtor == Init /\ [][NextCtor]_vars

\* The engine worker making native calls on a bridge whose receiver the
\* host may drop at any moment: a host thread sends scripts that create a
\* node, plain scripts and Shutdown, the host consumer takes messages.
NextDrop ==
    \/ \E src \in {SrcCreateNode, SrcOk} : HostExecute("h1", src)
    \/ HostShutdown("h1")
    \/ WorkerCore
    \/ WorkerNativeReturn
    \/ WorkerNativeSendFails
    \/ ConsumerDrop(WorkerBridge)
    \/ /\ WorkerBridge \notin rxDropped
       /\ Len(recvLog[WorkerBridge]) < MaxBridgeRecvs
       /\ ConsumerTryRecv(WorkerBridge)

\* From an empty bridge and from a full one.
InitDrop ==
    /\ InitEngine
    /\ InitExtensions
    /\ InitStyleOff
    /\ InitEscOff
    /\ InitSocket
    /\ InitIds
    /\ \E n \in {0, BridgeCapacity} : BridgeAfter(n)
    /\ rReferrer = NoReferrer
    /\ rSpecifier = <<>>
    /\ rResolved = [key |-> <<>>, how |-> "none"]
    /\ rPc = "off"

SpecDrop == InitDrop /\ [][NextDrop]_vars

\* escape_json_string on every string of up to MaxEscLen characters.
EscInputs == UNION {[1..n -> EscChars] : n \in 0..MaxEscLen}

InitEscape ==
    /\ InitEngine
    /\ InitExtensions
    /\ InitStyleOff
    /\ InitSocket
    /\ InitIds
    /\ InitBridge
    /\ rReferrer = NoReferrer
    /\ rSpecifier = <<>>
    /\ rResolved = [key |-> <<>>, how |-> "none"]
    /\ rPc = "off"
    /\ escIn \in EscInputs
    /\ escOut = <<>>
    /\ escPc = "input"

SpecEscape == InitEscape /\ [][EscapeStep]_vars

\* The engine worker making native calls on a full bridge: a host thread
\* opens a socket, runs a script that creates a node and sends Shutdown,
\* the socket's thread dispatches its events, the host consumer drains.
NextStall ==
    \/ NewCalls < 1 /\ HostExecute("h1", SrcWsNew(TRUE))
    \/ HostExecute("h1", SrcCreateNode)
    \/ HostShutdown("h1")
    \/ WorkerCore
    \/ WorkerNativeReturn
    \/ \E id \in DOMAIN auxPc : AuxConnect(id, "ok")
    \/ \E id \in DOMAIN auxPc : AuxDispatchOpen(id)
    \/ \E id \in DOMAIN auxPc : Len(frames[id]) < MaxFrames /\ AuxRead(id, "text")
    \/ Len(recvLog[WorkerBridge]) < MaxBridgeRecvs /\ ConsumerTryRecv(WorkerBridge)

SpecStall == InitStall /\ [][NextStall]_vars

\* The style parsers.  Number texts with the value each denotes, in
\* thousandths.
NumberTable ==
    { [text |-> <<"1", "0", "0">>, v |-> 100000],
      [text |-> <<"5", "0">>, v |-> 50000],
      [text |-> <<"1", "0">>, v |-> 10000],
      [text |-> <<"2", "0">>, v |-> 20000],
      [text |-> <<"0">>, v |-> 0],
      [text |-> <<"1", ".", "5">>, v |-> 1500],
      [text |-> <<"-", "5">>, v |-> -5000],
      [text |-> <<".", "5">>, v |-> 500],
      [text |-> <<"5", ".">>, v |-> 5000],
      [text |-> <<"+", "5">>, v |-> 5000],
      [text |-> <<"0", "0", "7">>, v |-> 7000] }

UnitSuffixes == {<<"p", "x">>, <<"%">>, <<"v", "w">>, <<"v", "h">>}

Pads == {<<>>, <<" ">>}

\* A number, then a unit suffix or none, with or without blanks around the
\* value and between the number and its suffix.
ValNumbers ==
    { pre \o t.text \o gap \o suf \o post :
        pre \in Pads, t \in NumberTable, gap \in Pads, suf \in UnitSuffixes \cup {<<>>},
        post \in Pads }

ValOthers ==
    { <<>>,
      <<"p", "x">>,
      <<"%">>,
      <<"1", "0", "p", "t">>,
      <<"1", "0", "p", "x", "p", "x">>,
      <<"1", " ", "0", "p", "x">>,
      <<"a", "b", "c">>,
      <<"1", ".", "2", ".", "3", "p", "x">>,
      <<"-">>,
      <<"A", "U", "T", "O">>,
      <<"1", "0", "P", "X">>,
      <<"1", "0", " ", "p", " ", "x">>,
      <<".">>,
      <<"+", "v", "h">> }

ValInputs == ValNumbers \cup ValOthers \cup {pre \o <<"a", "u", "t", "o">> \o post : pre \in Pads, post \in Pads}

\* Characters of hex colours: digits of both cases, and two that are none.
HexAlphabet == {"0", "f", "F", "a", "8", "g", "+"}

\* "#RGB" written out as "#RRGGBB".
Expand(short) ==
    <<"#", short[2], short[2], short[3], short[3], short[4], short[4]>>

ShortHexInputs == {<<"#", x, y, z>> : x, y, z \in HexAlphabet}

ColorInputs ==
    ShortHexInputs \cup {Expand(s) : s \in ShortHexInputs}
    \cup {pre \o name \o post :
            pre \in Pads, post \in Pads,
            name \in {<<"r", "e", "d">>, <<"R", "E", "D">>, <<"#", "f", "0", "0">>, <<"#", "f", "f", "0", "0", "0", "0">>, <<"#", "F", "0", "0", "f">>, <<"#", "f", "f", "0", "0", "0", "0", "8", "0">>, <<"b", "l", "a", "c", "k">>, <<"#", "0", "0", "0">>,
                      <<"g", "r", "a", "y">>, <<"#", "8", "0", "8", "0", "8", "0">>, <<"#", "f", "f">>, <<"f", "f", "0", "0", "0", "0">>, <<"r", "e", "d", "d", "i", "s", "h">>, <<"#", "+", "f", "0", "0", "0", "0">>}}

InitStyle ==
    /\ InitEngine
    /\ extensions = BuilderExtensions
    /\ InitSocket
    /\ InitIds
    /\ InitBridge
    /\ rReferrer = NoReferrer
    /\ rSpecifier = <<>>
    /\ rResolved = [key |-> <<>>, how |-> "none"]
    /\ rPc = "off"
    /\ InitEscOff
    /\ \/ styleFn = "val" /\ styleIn \in ValInputs
       \/ styleFn = "color" /\ styleIn \in ColorInputs
    /\ styleOut = ValAuto
    /\ stylePc = "input"

NextStyle == ParseValStep \/ ParseColorStep

SpecStyle == InitStyle /\ [][NextStyle]_vars

\* The resolution alone.
ResolveReferrers ==
    { NoReferrer,
      <<"/", "a", "p", "p", "/", "s", "r", "c", "/", "a", ".", "j", "s">>,
      <<"/", "a", ".", "j", "s">>,
      <<"a", ".", "j", "s">>,
      <<"/">>,
      <<"h", "t", "t", "p", ":", "/", "/", "h", "o", "s", "t", ":", "5", "1", "7", "3",
        "/", "s", "r", "c", "/", "a", ".", "t", "s", "x">>,
      <<"h", "t", "t", "p", ":", "/", "/", "h">>,
      KeyA }

ResolveSpecifiers ==
    { <<".", "/", "b", ".", "j", "s">>,
      <<"b", ".", "j", "s">>,
      <<"/", "c", ".", "j", "s">>,
      <<".", ".", "/", "c", ".", "j", "s">>,
      <<"d", "/", ".", "/", "c", ".", "j", "s">>,
      <<"/", "/">>,
      <<"/", "/", "h", "/", "x">>,
      <<>>,
      KeyB }

InitResolve ==
    /\ InitEngine
    /\ InitExtensions
    /\ InitStyleOff
    /\ InitEscOff
    /\ InitSocket
    /\ InitIds
    /\ InitBridge
    /\ rReferrer \in ResolveReferrers
    /\ rSpecifier \in ResolveSpecifiers
    /\ rResolved = [key |-> <<>>, how |-> "none"]
    /\ rPc = "input"

NextResolve == ResolveStep

SpecResolve == InitResolve /\ [][NextResolve]_vars


(***************************************************************************)
(* Properties.                                                             *)
(***************************************************************************)
CmdOf(id) == callLog[id].cmd

IsStart(e) == e.ev = "start"

IsSent(e) == e.ok

\* The command's match arm ran to its end, flush included.
Processed(id) == \E i \in DOMAIN execLog : execLog[i] = Event(id, "flush")

Started(id) == \E i \in DOMAIN execLog : execLog[i] = Event(id, "start")

\* C1: the worker starts the commands in exactly the order in which they were
\* put on the channel, whichever thread sent them; each is started once, and
\* a command's arm has finished (its flush included) before the next starts.
C1_GlobalFifo ==
    LET sent == SelectSeq(callLog, IsSent)
        starts == SelectSeq(execLog, IsStart)
    IN  /\ Len(starts) <= Len(sent)
        /\ \A i \in 1..Len(starts) : starts[i].id = sent[i].cmd.id
        /\ \A i, j \in DOMAIN execLog :
              (i < j /\ IsStart(execLog[i]) /\ IsStart(execLog[j])) =>
                 \E k \in (i + 1)..(j - 1) : execLog[k] = Event(execLog[i].id, "flush")

\* Two commands sent by different host threads have both been processed.
C1_Witness ==
    \E a, b \in DOMAIN callLog :
        /\ a < b
        /\ CmdOf(a).by # CmdOf(b).by
        /\ Processed(a)
        /\ Processed(b)

\* The state that lives in the script context.
ContextState == <<registered, jobs, cache, wsRegistry, jsReadyState, jsEvents>>

\* The step is one of the worker thread's.
WorkerStep ==
    \/ workerPc' # workerPc
    \/ execLog' # execLog
    \/ importLog' # importLog
    \/ fetchLog' # fetchLog

\* C2: the script context is only ever touched by the worker thread; a host
\* thread or a connection's thread that wants something run only puts a
\* command on the queue: every step that changes the context's state is a
\* step of the worker, and a step in which a client call is made leaves the
\* context as it was and at most appends that call's command to the queue;
\* a socket event is an Execute command, and reaches the shim only as one.
C2_ContextOnlyOnWorker ==
    [][/\ ctxAccess' \subseteq {"worker"}
       /\ ContextState' # ContextState => WorkerStep
       /\ callLog' # callLog =>
             /\ ~WorkerStep
             /\ ContextState' = ContextState
             /\ queue' \in {queue, Append(queue, callLog'[Len(callLog')].cmd)}
             /\ callLog'[Len(callLog')].cmd.by \notin Hosts =>
                   callLog'[Len(callLog')].cmd.kind = "Execute"
       /\ jsEvents' # jsEvents => cur.kind = "Execute" /\ cur.by \notin Hosts]_vars

C2_Witness ==
    /\ ctxAccess = {"worker"}
    /\ \E i \in DOMAIN jsEvents :
          /\ jsEvents[i].delivered
          /\ CmdOf(jsEvents[i].cmd).by \notin Hosts
    /\ \E a \in DOMAIN callLog : CmdOf(a).by \in Hosts /\ Processed(a)

\* C3: no Execute or LoadEsmModule command whose source fails to parse or
\* throws takes the worker down: the worker never panics on such a command.
C3_ScriptFaultKeepsWorker ==
    \A i \in DOMAIN execLog :
        LET c == CmdOf(execLog[i].id)
        IN  (c.kind \in {"Execute", "LoadEsmModule"} /\ (~c.src.parses \/ c.src.throws))
               => execLog[i].ev # "panic"

\* C4: once Shutdown is dequeued the worker does nothing more: the start of
\* Shutdown is the last thing it did (no later command, no flush), and every
\* command sent before Shutdown has been processed.
C4_ShutdownEndsLoop ==
    \A i \in DOMAIN execLog :
        (IsStart(execLog[i]) /\ CmdOf(execLog[i].id).kind = "Shutdown") =>
            /\ i = Len(execLog)
            /\ \A a \in 1..(execLog[i].id - 1) : callLog[a].ok => Processed(a)

\* Shutdown was dequeued after a processed command, with a command behind it.
C4_Witness ==
    \E s \in DOMAIN callLog :
        /\ CmdOf(s).kind = "Shutdown"
        /\ Started(s)
        /\ s > 1
        /\ Processed(s - 1)
        /\ \E b \in DOMAIN callLog : b > s /\ callLog[b].ok
        /\ workerPc = "exited"

\* C5: after the worker has exited on a panic it stays exited and does
\* nothing; a client call made then returns with its send failed and changes
\* neither the channel nor anything of the context, and is made once.
C5_DeadEngineInert ==
    [][(workerPc = "exited" /\ exitCause = "panic") =>
          /\ workerPc' = "exited"
          /\ execLog' = execLog
          /\ queue' = queue
          /\ <<cache, jobs, registered, ctxAccess>>' = <<cache, jobs, registered, ctxAccess>>
          /\ \/ callLog' = callLog
             \/ /\ Len(callLog') = Len(callLog) + 1
                /\ SubSeq(callLog', 1, Len(callLog)) = callLog
                /\ ~callLog'[Len(callLog')].ok]_vars

\* A client call was made after the worker died of a panic.
C5_Witness ==
    /\ workerPc = "exited"
    /\ exitCause = "panic"
    /\ \E i \in DOMAIN callLog : ~callLog[i].ok
    /\ queue = <<>>

\* C6 as claimed: no resolved specifier is fetched twice.
C6_NeverFetchedTwice ==
    \A i, j \in DOMAIN fetchLog : i < j => fetchLog[i].key # fetchLog[j].key

\* C6, amended: a fetch is issued only for a key that is not in the cache
\* (every import that hits issues none), so a key is fetched again only after
\* every earlier fetch of it failed: at most one fetch of a key succeeds.
C6_FetchOnlyOnMiss ==
    /\ \A i, j \in DOMAIN fetchLog :
          (i < j /\ fetchLog[i].key = fetchLog[j].key) =>
              fetchLog[i].result \in FetchOutcomes \ {"ok"}
    /\ workerPc = "fetching" => fetchLog[Len(fetchLog)].key \notin DOMAIN cache
    /\ Len(fetchLog) = Cardinality({i \in DOMAIN importLog : ~importLog[i].hit})
    /\ \A i \in DOMAIN fetchLog :
          fetchLog[i].result = "ok" => fetchLog[i].key \in DOMAIN cache

\* A key was fetched with success, and a later import of it hit the cache.
C6_Witness ==
    \E i, j \in DOMAIN importLog :
        /\ i < j
        /\ importLog[i].key = importLog[j].key
        /\ ~importLog[i].hit
        /\ importLog[j].hit
        /\ \E f \in DOMAIN fetchLog :
              fetchLog[f].key = importLog[i].key /\ fetchLog[f].result = "ok"

\* C7 as claimed: an entry of the cache is never removed and never changes.
C7_WriteOnce ==
    [][\A k \in DOMAIN cache : k \in DOMAIN cache' /\ cache'[k] = cache[k]]_vars

\* C7, amended: an entry is never removed, and it changes only when a
\* LoadEsmModule command of that very name is evaluated, which stores its
\* own module; an import never changes an entry.
C7_PermanentReplacedOnlyByLoad ==
    [][\A k \in DOMAIN cache :
          /\ k \in DOMAIN cache'
          /\ cache'[k] # cache[k] =>
                /\ workerPc = "eval"
                /\ cur.kind = "LoadEsmModule"
                /\ cur.name = k
                /\ cache'[k] = LocalUnit(cur.id)]_vars

\* An entry made by a fetch has since served an import from the cache, and
\* another entry was stored by a LoadEsmModule command.
C7_Witness ==
    /\ \E i \in DOMAIN importLog :
          /\ importLog[i].hit
          /\ cache[importLog[i].key].origin = "net"
    /\ \E k \in DOMAIN cache : cache[k].origin = "local"

\* C8: once a LoadEsmModule{name} command is processed, the cache holds a
\* module of a LoadEsmModule command under name, and every import made by a
\* later command that resolves to name hits the cache and fetches nothing.
C8_LoadedNameIsCached ==
    \A c \in DOMAIN callLog :
        (CmdOf(c).kind = "LoadEsmModule" /\ Processed(c)) =>
            LET name == CmdOf(c).name
            IN  /\ name \in DOMAIN cache
                /\ cache[name].origin = "local"
                /\ cache[name].n >= c
                /\ CmdOf(cache[name].n).name = name
                /\ \A i \in DOMAIN importLog :
                      (importLog[i].key = name /\ importLog[i].cmd > c) => importLog[i].hit
                /\ \A f \in DOMAIN fetchLog :
                      fetchLog[f].cmd > c => fetchLog[f].key # name

\* A script with no referrer imported a name registered by LoadEsmModule,
\* a name that could not have been fetched.
C8_Witness ==
    \E c \in DOMAIN callLog, i \in DOMAIN importLog :
        /\ CmdOf(c).kind = "LoadEsmModule"
        /\ Processed(c)
        /\ importLog[i].key = CmdOf(c).name
        /\ importLog[i].cmd > c
        /\ CmdOf(importLog[i].cmd).kind = "Execute"
        /\ importLog[i].hit
        /\ ~UrlParse(importLog[i].key).ok

\* C11: when the fetch or the reading of the body fails, the load returns
\* its error, the cache is left as it was, and the worker goes on flushing:
\* it does not exit, and its receiver stays alive.
C11_FetchFailureIsContained ==
    [][(/\ workerPc = "fetching"
        /\ fetchLog' # fetchLog
        /\ fetchLog'[Len(fetchLog')].result \in {"fetch_error", "body_error"})
       => /\ cache' = cache
          /\ jobs' = Tail(jobs)
          /\ workerPc' = "flush"
          /\ exitCause' = exitCause
          /\ receiverAlive' = receiverAlive]_vars

\* A fetch failed, its key is not cached, and a command sent after the
\* importing one was processed.
C11_Witness ==
    \E f \in DOMAIN fetchLog :
        /\ fetchLog[f].result \in {"fetch_error", "body_error"}
        /\ fetchLog[f].key \notin DOMAIN cache
        /\ \E c \in DOMAIN callLog : c > fetchLog[f].cmd /\ Processed(c)

\* The ready-state transitions the state machine allows.
AllowedTransitions ==
    { <<WS_CONNECTING, WS_OPEN>>, <<WS_OPEN, WS_CLOSING>>, <<WS_OPEN, WS_CLOSED>>,
      <<WS_CONNECTING, WS_CLOSED>> }

\* C12: the ready-state of a connection changes only along Connecting ->
\* Open, Open -> Closing, Open -> Closed and Connecting -> Closed.
C12_ReadyStateMachine ==
    [][\A id \in DOMAIN readyState :
          readyState'[id] # readyState[id] =>
              <<readyState[id], readyState'[id]>> \in AllowedTransitions]_vars

DispatchCalls(id) ==
    LET ByThread(e) == e.cmd.by = AuxThread(id)
    IN  SelectSeq(callLog, ByThread)

\* The events those calls carry, as <<type, code>>.
DispatchedEvents(id) ==
    LET calls == DispatchCalls(id)
    IN  [k \in DOMAIN calls |-> <<calls[k].cmd.src.ws.ev, calls[k].cmd.src.ws.code>>]

\* The events of connection id that were put on the command queue.
EnqueuedEvents(id) ==
    LET Sent(e) == e.cmd.by = AuxThread(id) /\ e.ok
        calls == SelectSeq(callLog, Sent)
    IN  [k \in DOMAIN calls |-> <<calls[k].cmd.src.ws.ev, calls[k].cmd.src.ws.code>>]

\* The connection attempt of id failed: its thread is on a failure path
\* that never started a send task.
ConnectFailed(id) == auxPc[id] \in {"error", "close", "done"} /\ sendPc[id] = "off"

\* C14 as claimed: once the thread of a failed connect has returned, exactly
\* one error event and then one close event with code 1006 are on record as
\* enqueued for its id.
C14_FailedConnectEnqueuesBoth ==
    \A id \in DOMAIN auxPc :
        (ConnectFailed(id) /\ auxPc[id] = "done") =>
            EnqueuedEvents(id) = << <<"error", 0>>, <<"close", 1006>> >>

\* C14, amended: a failed connect stores Closed (only a later close() makes
\* it Closing), then dispatches exactly one error event and then exactly one
\* close event with code 1006, never an open event, and its thread returns
\* for good; each of the two is enqueued if the worker still has its
\* receiver when it is dispatched, and is dropped if the worker has exited.
C14_FailedConnectDispatchesBoth ==
    \A id \in DOMAIN auxPc :
        ConnectFailed(id) =>
            /\ readyState[id] \in {WS_CLOSED, WS_CLOSING}
            /\ readyState[id] = WS_CLOSING => id \notin connections
            /\ auxPc[id] = "error" => DispatchedEvents(id) = <<>>
            /\ auxPc[id] = "close" => DispatchedEvents(id) = << <<"error", 0>> >>
            /\ auxPc[id] = "done" =>
                  DispatchedEvents(id) = << <<"error", 0>>, <<"close", 1006>> >>
            /\ receiverAlive => EnqueuedEvents(id) = DispatchedEvents(id)
            /\ frames[id] = <<>>
            /\ wire[id] = <<>>

\* A connect failed, its thread returned, and the worker has delivered
\* both events to the shim.
C14_Witness ==
    \E id \in DOMAIN auxPc :
        /\ ConnectFailed(id)
        /\ auxPc[id] = "done"
        /\ \E i, j \in DOMAIN jsEvents :
              /\ i < j
              /\ jsEvents[i].id = id /\ jsEvents[i].ev = "error" /\ jsEvents[i].delivered
              /\ jsEvents[j].id = id /\ jsEvents[j].ev = "close" /\ jsEvents[j].code = 1006
              /\ jsEvents[j].delivered

\* C15: the ids connect takes are 1, 2, 3, ... in allocation order, so each
\* is greater than every id taken before it and no two connects share one,
\* also when several threads are inside connect at once.
C15_ConnectionIdsAreSequence ==
    /\ \A k \in DOMAIN idsLog : idsLog[k].id = k
    /\ nextId = Len(idsLog) + 1
    /\ \A t, u \in IdsThreads :
          (t # u /\ idsPc[t] = "insert" /\ idsPc[u] = "insert") => idsLocal[t] # idsLocal[u]
    /\ connections \subseteq {idsLog[k].id : k \in DOMAIN idsLog}

\* Three threads were inside connect at the same time, after an earlier
\* connect had returned.
C15_Witness ==
    /\ \A t \in IdsThreads : idsPc[t] = "insert"
    /\ connections # {}
    /\ Len(idsLog) = 4

\* The messages that carry a freshly created node: pending, in flight or
\* received.
CreatedIds ==
    LET InSeq(q) == {q[k].node_id : k \in {j \in DOMAIN q : q[j].kind \in CreateKinds}}
    IN  [b \in Bridges |-> InSeq(chan[b]) \cup InSeq(recvLog[b])]

\* C19: node ids are 1, 2, 3, ... in allocation order whichever bridge and
\* thread allocates them and whatever was destroyed before: each is greater
\* than every earlier one, and none is handed out twice.
C19_NodeIdsAreSequence ==
    /\ \A k \in DOMAIN allocLog : allocLog[k].id = k
    /\ nodeIdCounter = Len(allocLog)
    /\ \A p, q \in Producers :
          (p # q /\ prodPc[p].msg.kind \in CreateKinds /\ prodPc[q].msg.kind \in CreateKinds)
              => prodPc[p].msg.node_id # prodPc[q].msg.node_id
    /\ \A b, c \in Bridges : b # c => CreatedIds[b] \cap CreatedIds[c] = {}

\* A node was destroyed, and after that a node was created by another
\* thread on another bridge.
C19_Witness ==
    \E i, j \in DOMAIN nativeLog :
        /\ i < j
        /\ nativeLog[i].msg.kind = "DestroyNode"
        /\ nativeLog[j].msg.kind \in CreateKinds
        /\ nativeLog[i].by # nativeLog[j].by
        /\ nativeLog[i].bridge # nativeLog[j].bridge
        /\ \A p \in Producers : prodPc[p].pc = "idle"

\* C20: a bridge's channel never holds more than 256 messages; a native
\* call that is at its send goes through exactly if fewer than 256 are
\* pending, and waits otherwise, until the consumer has taken one.
C20_BoundedChannelBlocks ==
    /\ \A b \in Bridges : Len(chan[b]) <= BridgeCapacity
    /\ \A p \in Producers :
          prodPc[p].pc = "send" =>
              ((ENABLED SyncSend(p)) <=> Len(chan[prodPc[p].bridge]) < BridgeCapacity)

\* A call found the channel full, the consumer took one message, and the
\* call went through: the channel is full again.
C20_Witness ==
    /\ prefill = BridgeCapacity - 1
    /\ Len(chan["b1"]) = BridgeCapacity
    /\ Len(recvLog["b1"]) = 1
    /\ \A k \in DOMAIN nativeLog : nativeLog[k].bridge = "b1"
    /\ Len(nativeLog) = prefill + 2
    /\ \A p \in Producers : prodPc[p].pc = "idle"

\* The worker's step runs a script in which WebSocketManager::close(id) is
\* called.
CloseCalled(id) ==
    /\ workerPc = "eval"
    /\ workerPc' = "flush"
    /\ cur.kind = "Execute"
    /\ cur.src.ws.id = id
    /\ \/ cur.src.ws.op = "native_close"
       \/ /\ cur.src.ws.op = "close"
          /\ id \in DOMAIN jsReadyState
          /\ jsReadyState[id] \notin {WS_CLOSING, WS_CLOSED}

\* C16: close(id) on a connection that is in the table removes it from the
\* table and stores Closing, in the caller's own step and whatever the
\* connection's thread is doing; close on an id that is not in the table
\* changes neither the table nor any state; the connection's thread, its
\* send task and its outbound channel are not touched.
C16_CloseRemovesAndMarksClosing ==
    [][\A id \in 1..MaxConns :
          CloseCalled(id) =>
              /\ IF id \in connections
                 THEN /\ connections' = connections \ {id}
                      /\ readyState' = [readyState EXCEPT ![id] = WS_CLOSING]
                 ELSE /\ connections' = connections
                      /\ readyState' = readyState
              /\ UNCHANGED <<auxPc, sendPc, outbound, wire, queue>>]_vars

\* close returned for a connection whose thread was still connecting or
\* reading: the record is gone, the state is Closing, the thread is where
\* it was.
C16_Witness ==
    \E id \in DOMAIN auxPc :
        /\ id \notin connections
        /\ readyState[id] = WS_CLOSING
        /\ auxPc[id] \in {"connect", "running"}
        /\ \E c \in DOMAIN callLog :
              /\ CmdOf(c).src.ws.op \in {"close", "native_close"}
              /\ CmdOf(c).src.ws.id = id
              /\ Processed(c)

\* The thread of connection id left its read loop on a close frame or a
\* read error and has returned.
PeerEnded(id) == auxPc[id] = "done" /\ sendPc[id] = "stopped" /\ auxCode[id] # 0

\* C17: once the peer's close frame or a read error has been handled, the
\* connection's id is no longer in the connection table.
C17_PeerCloseRemovesRecord ==
    \A id \in DOMAIN auxPc : PeerEnded(id) => id \notin connections

IsDispatch(e) == e.cmd.src.ws.op = "dispatch"

\* The position in execLog at which command id was started, 0 if it was not.
StartIndex(id) ==
    LET at == {i \in DOMAIN execLog : execLog[i] = Event(id, "start")}
    IN  IF at = {} THEN 0 ELSE Min(at)

\* C18: the shim receives the socket events in exactly the order in which
\* their dispatch scripts were put on the command queue, across all
\* connections; an event is executed only after every command that was
\* enqueued before it, whoever sent it, and before every command enqueued
\* after it; so the events of one connection arrive in the order in which
\* its thread dispatched them.
C18_EventsInQueueOrder ==
    LET sent == SelectSeq(callLog, IsSent)
        sentEvents == SelectSeq(sent, IsDispatch)
    IN  /\ Len(jsEvents) <= Len(sentEvents)
        /\ \A i \in DOMAIN jsEvents :
              /\ jsEvents[i].cmd = sentEvents[i].cmd.id
              /\ jsEvents[i].id = sentEvents[i].cmd.src.ws.id
              /\ jsEvents[i].ev = sentEvents[i].cmd.src.ws.ev
        /\ \A i \in DOMAIN jsEvents, c \in DOMAIN callLog :
              (callLog[c].ok /\ c < jsEvents[i].cmd) =>
                  /\ StartIndex(c) # 0
                  /\ StartIndex(c) < StartIndex(jsEvents[i].cmd)
        /\ \A i \in DOMAIN jsEvents, c \in DOMAIN callLog :
              (c > jsEvents[i].cmd /\ StartIndex(c) # 0) =>
                  StartIndex(c) > StartIndex(jsEvents[i].cmd)
        /\ \A id \in DOMAIN auxPc :
              LET OfId(e) == e.id = id
                  seen == SelectSeq(jsEvents, OfId)
              IN  /\ Len(seen) <= Len(EnqueuedEvents(id))
                  /\ \A k \in DOMAIN seen :
                        <<seen[k].ev, seen[k].code>> = EnqueuedEvents(id)[k]

\* Events of two connections were executed, with a host thread's command
\* enqueued and processed between them.
C18_Witness ==
    \E i, j \in DOMAIN jsEvents :
        /\ i < j
        /\ jsEvents[i].id # jsEvents[j].id
        /\ \E c \in DOMAIN callLog :
              /\ CmdOf(c).by \in Hosts
              /\ jsEvents[i].cmd < c
              /\ c < jsEvents[j].cmd
              /\ Processed(c)

\* The calls whose send on bridge b has returned, in the order in which
\* their messages entered the channel.
SentOn(b) ==
    LET On(r) == r.bridge = b
    IN  SelectSeq(retLog, On)

\* The place of call c among the messages of bridge b, 0 if it has none.
PlaceOf(b, c) ==
    LET sent == SentOn(b)
        at == {k \in DOMAIN sent : sent[k].call = c}
    IN  IF at = {} THEN 0 ELSE Min(at)

\* The calls made since observation began.
Observed == (prefill + 1)..Len(nativeLog)

\* Calls i < j < k of one script on one bridge: a create of node N, an
\* appendChild of N, an update of N.
CreateAppendUpdate(i, j, k) ==
    /\ i < j /\ j < k
    /\ nativeLog[i].by = nativeLog[j].by /\ nativeLog[j].by = nativeLog[k].by
    /\ nativeLog[i].bridge = nativeLog[j].bridge /\ nativeLog[j].bridge = nativeLog[k].bridge
    /\ nativeLog[i].msg.kind \in CreateKinds
    /\ nativeLog[j].msg = Msg("AppendChild", nativeLog[i].msg.node_id)
    /\ nativeLog[k].msg = Msg("UpdateNode", nativeLog[i].msg.node_id)

\* C21: every native call puts exactly one message on its bridge when its
\* send returns, and the consumer receives a bridge's messages in the order
\* in which they entered the channel, which for the calls of one script
\* (one thread) is the order in which it made them: an AppendChild made
\* after the CreateNode of its child is received after it, and before an
\* UpdateNode of that child made later.
C21_MessagesInCallOrder ==
    /\ \A b \in Bridges :
          LET sent == SentOn(b)
              seen == {k \in DOMAIN sent : sent[k].call \in Observed}
          IN  /\ recvLog[b] \o chan[b] = [k \in DOMAIN sent |-> nativeLog[sent[k].call].msg]
              /\ \A x, y \in seen :
                    (x < y /\ sent[x].by = sent[y].by) => sent[x].call < sent[y].call
    /\ \A c \in Observed :
          LET n == Cardinality({k \in DOMAIN retLog : retLog[k].call = c})
              p == nativeLog[c].by
          IN  /\ IF prodPc[p].pc = "send" /\ CallOf(p) = c THEN n = 0 ELSE n = 1
              /\ n = 1 => PlaceOf(nativeLog[c].bridge, c) # 0
    /\ \A i, j, k \in Observed :
          CreateAppendUpdate(i, j, k) =>
              LET b == nativeLog[i].bridge
                  received == 1..Len(recvLog[b])
              IN  /\ PlaceOf(b, k) # 0 => PlaceOf(b, j) # 0 /\ PlaceOf(b, j) < PlaceOf(b, k)
                  /\ PlaceOf(b, j) # 0 => PlaceOf(b, i) # 0 /\ PlaceOf(b, i) < PlaceOf(b, j)
                  /\ PlaceOf(b, k) \in received => PlaceOf(b, j) \in received
                  /\ PlaceOf(b, j) \in received => PlaceOf(b, i) \in received

\* A script created a node, appended it and updated it; the consumer has
\* received the CreateNode and then the AppendChild, and the UpdateNode is
\* still pending behind them.
C21_Witness ==
    \E i, j, k \in Observed :
        /\ CreateAppendUpdate(i, j, k)
        /\ recvLog[nativeLog[i].bridge] = <<nativeLog[i].msg, nativeLog[j].msg>>
        /\ chan[nativeLog[i].bridge] = <<nativeLog[k].msg>>

\* C22: when createNode or createText returns, the value it returns is the
\* node_id of the message that very call has just put on its bridge, the
\* id allocated for the call; the return is the step in which the message
\* is enqueued, and the consumer has no part in it: what it has received is
\* unchanged, and the message is still pending.
C22_CreateReturnsMessageId ==
    [][retLog' # retLog =>
          LET r == retLog'[Len(retLog')]
              call == nativeLog[r.call]
          IN  /\ retLog' = Append(retLog, r)
              /\ call.by = r.by /\ call.bridge = r.bridge
              /\ chan'[r.bridge] = Append(chan[r.bridge], call.msg)
              /\ recvLog' = recvLog
              /\ IF call.msg.kind \in CreateKinds
                 THEN /\ r.value = call.msg.node_id
                      /\ r.value \in 1..nodeIdCounter
                      /\ \E a \in DOMAIN allocLog :
                            allocLog[a] = [by |-> r.by, bridge |-> r.bridge, id |-> r.value]
                 ELSE r.value = 0]_vars

\* A create returned id N while another thread had already taken a later
\* id; the script then used N in an appendChild, and the consumer has not
\* yet received anything.
C22_Witness ==
    \E k \in DOMAIN retLog, j \in DOMAIN nativeLog :
        /\ nativeLog[retLog[k].call].msg.kind \in CreateKinds
        /\ retLog[k].value < nodeIdCounter
        /\ j > retLog[k].call
        /\ nativeLog[j] = [by |-> retLog[k].by, bridge |-> retLog[k].bridge,
                           msg |-> Msg("AppendChild", retLog[k].value)]
        /\ \A b \in Bridges : recvLog[b] = <<>>

\* The extensions of the RegisterExtension commands whose arm has run, in
\* the order the worker ran them.
LateRegistered ==
    LET IsLate(e) == e.ev = "start" /\ CmdOf(e.id).kind = "RegisterExtension"
        started == SelectSeq(execLog, IsLate)
        n == IF workerPc = "eval" /\ cur.kind = "RegisterExtension"
             THEN Len(started) - 1 ELSE Len(started)
    IN  [k \in 1..n |-> CmdOf(started[k].id).ext]

FullRed == Srgba(ChannelOne, 0, 0, ChannelOne)

\* The input is '#' and three hex digits.
IsShortHex(s) ==
    /\ Len(s) = 4
    /\ s[1] = "#"
    /\ \A i \in 2..4 : s[i] \in {"0", "f", "F", "a", "8"}

\* C24: "#f00", "#ff0000" and "red" parse to one colour, opaque full red;
\* a colour "#RGB" of three hex digits parses to a colour, the very colour
\* its expansion "#RRGGBB" parses to, each channel being the digit's value
\* times 17, of 255.
C24_HexShortEqualsLong ==
    (stylePc = "done" /\ styleFn = "color") =>
        /\ styleIn \in {<<"#", "f", "0", "0">>, <<"#", "f", "f", "0", "0", "0", "0">>, <<"r", "e", "d">>} => styleOut = FullRed
        /\ IsShortHex(styleIn) =>
              /\ styleOut.some
              /\ styleOut = ParseColor(Expand(styleIn))
              /\ styleOut.space = "srgba"
              /\ styleOut.a = ChannelOne
              /\ styleOut.r = 17 * ToDigit(ToLowercase(styleIn)[2], 16) * 20

\* "#f00" has been parsed, to full red.
C24_Witness ==
    /\ stylePc = "done"
    /\ styleFn = "color"
    /\ styleIn = <<"#", "f", "0", "0">>
    /\ styleOut = FullRed

UnitOf(suf) ==
    CASE suf = <<"p", "x">> -> "Px"
      [] suf = <<"%">> -> "Percent"
      [] suf = <<"v", "w">> -> "Vw"
      [] suf = <<"v", "h">> -> "Vh"
      [] OTHER -> "Px"

\* C25 as claimed: a number directly followed by px, %, vw or vh gives that
\* unit, a bare number gives Px, "auto" gives Auto, and every other string
\* gives Auto.
C25_OnlyExactForms ==
    (stylePc = "done" /\ styleFn = "val") =>
        IF \E t \in NumberTable, suf \in UnitSuffixes \cup {<<>>} : styleIn = t.text \o suf
        THEN \E t \in NumberTable, suf \in UnitSuffixes \cup {<<>>} :
                styleIn = t.text \o suf /\ styleOut = Val(UnitOf(suf), t.v)
        ELSE styleOut = ValAuto

\* C25, amended: blanks around the value, and between the number and its
\* suffix, are dropped first; then a number followed by px, %, vw or vh
\* gives that unit with the number's value, a bare number gives Px, "auto"
\* gives Auto, and every other string gives Auto.
C25_UnitBySuffixAfterTrim ==
    (stylePc = "done" /\ styleFn = "val") =>
        IF styleIn \in ValNumbers
        THEN \E pre \in Pads, t \in NumberTable, gap \in Pads,
                suf \in UnitSuffixes \cup {<<>>}, post \in Pads :
                /\ styleIn = pre \o t.text \o gap \o suf \o post
                /\ styleOut = Val(UnitOf(suf), t.v)
        ELSE styleOut = ValAuto

\* "50%" has been parsed, to Percent(50).
C25_Witness ==
    /\ stylePc = "done"
    /\ styleFn = "val"
    /\ styleIn = <<"5", "0", "%">>
    /\ styleOut = Val("Percent", 50000)

\* C26: jobs (module loads) and timers run only while the worker is inside
\* flush_event_loop: none runs in a step of a command's evaluation or
\* while the worker waits in recv; and the worker dequeues a command only
\* when the flush of the command before it has ended with no job left: the
\* last thing it did was that flush.
C26_JobsOnlyAtFlush ==
    [][/\ (timerLog' # timerLog \/ importLog' # importLog \/ fetchLog' # fetchLog)
            => workerPc \in {"flush", "fetching"}
       /\ (workerPc \in {"idle", "eval"} \/ workerPc' = "eval")
            => /\ \A i \in DOMAIN timers : timers'[i].st = "ran" <=> timers[i].st = "ran"
               /\ Len(jobs') >= Len(jobs)
       /\ (workerPc = "idle" /\ workerPc' # "idle")
            => /\ jobs = <<>>
               /\ execLog # <<>> =>
                     /\ execLog[Len(execLog)].ev = "flush"
                     /\ CmdOf(execLog[Len(execLog)].id).kind
                           \in {"Execute", "LoadEsmModule", "FlushEventLoop"}
                     /\ execLog[Len(execLog)].id < execLog'[Len(execLog')].id]_vars

\* A timer set by a script came due after that script's flush, and ran in
\* the flush of a FlushEventLoop command sent later.
C26_Witness ==
    \E k \in DOMAIN timerLog :
        /\ CmdOf(timerLog[k].cmd).kind = "FlushEventLoop"
        /\ timerLog[k].cmd > timers[timerLog[k].timer].by
        /\ Processed(timers[timerLog[k].timer].by)
        /\ Processed(timerLog[k].cmd)

\* The step the thread of connection id takes next, if it may take one.
AuxCanStep(id) ==
    /\ auxPc[id] = "connect" =>
          ENABLED AuxConnect(id, IF urlValid[id] THEN "ok" ELSE "Invalid URL")
    /\ auxPc[id] = "opened" => ENABLED AuxDispatchOpen(id)
    /\ auxPc[id] = "error" => ENABLED AuxDispatchError(id)
    /\ auxPc[id] = "close" => ENABLED AuxDispatchClose(id)
    /\ auxPc[id] = "running" =>
          /\ ENABLED AuxRead(id, "text")
          /\ ENABLED AuxRead(id, "close")

\* C27: the steps in which the worker takes Shutdown off the queue and
\* returns change nothing of any connection thread, and every connection
\* thread can go on with its handshake, its dispatches and its read loop
\* whatever the worker's state; a dispatch made once the worker has exited
\* puts nothing on the queue and is recorded as not sent, and after the
\* exit nothing is executed and no event reaches the shim.
C27_ShutdownLeavesSocketWorkers ==
    [][/\ (workerPc' # workerPc /\ workerPc' \in {"exiting", "exited"})
            => UNCHANGED <<auxPc, auxCode, sendPc, readyState, frames, outbound, wire>>
       /\ \A id \in DOMAIN auxPc : AuxCanStep(id)
       /\ (~receiverAlive /\ callLog' # callLog)
            => /\ queue' = queue
               /\ ~callLog'[Len(callLog')].ok
       /\ ~receiverAlive => UNCHANGED <<execLog, jsEvents, jsReadyState>>]_vars

\* The worker has exited on Shutdown; after that a connection's handshake
\* completed and its read loop read a text frame, and the open and message
\* events its thread dispatched were both dropped.
C27_Witness ==
    /\ workerPc = "exited"
    /\ exitCause = "shutdown"
    /\ \E id \in DOMAIN auxPc :
          /\ auxPc[id] = "running"
          /\ readyState[id] = WS_OPEN
          /\ frames[id] = <<"text">>
          /\ DispatchedEvents(id) = << <<"open", 0>>, <<"message", 1>> >>
          /\ EnqueuedEvents(id) = <<>>
          /\ \A k \in DOMAIN jsEvents : jsEvents[k].id # id

\* The worker is inside a native call whose send finds the channel full.
WorkerBlocked == workerPc = "native" /\ Len(chan[WorkerBridge]) >= BridgeCapacity

\* queue grew at its end only.
QueueGrew ==
    /\ Len(queue') >= Len(queue)
    /\ SubSeq(queue', 1, Len(queue)) = queue

\* C28: while the worker is inside a native call on the full channel, every
\* step other than the host consumer taking a message leaves the worker
\* inside that call, with the same command, nothing more executed and no
\* flush; the command queue only grows, with whatever any producer sends;
\* no worker step is possible, and the consumer's next take lets the call
\* return.
C28_WorkerBlockedOnFullBridge ==
    [][WorkerBlocked =>
          /\ ~ENABLED (WorkerCore \/ WorkerNativeReturn \/ WorkerRunJob
                         \/ \E i \in DOMAIN timers : WorkerRunTimer(i))
          /\ recvLog' = recvLog =>
                /\ workerPc' = "native"
                /\ cur' = cur
                /\ execLog' = execLog
                /\ chan' = chan
                /\ QueueGrew
          /\ recvLog' # recvLog =>
                /\ UNCHANGED <<workerPc, cur, execLog, queue>>
                /\ CanSend(chan'[WorkerBridge])]_vars

\* The worker is blocked inside create_node on the full channel, and behind
\* it the queue holds a socket event and Shutdown, none of them started.
C28_Witness ==
    /\ WorkerBlocked
    /\ cur.src.ws.op = "create_node"
    /\ \E i, j \in DOMAIN queue :
          /\ queue[i].src.ws.op = "dispatch"
          /\ queue[j].kind = "Shutdown"
    /\ \A i \in DOMAIN queue : ~Started(queue[i].id)

\* A fetch has begun and has not returned.
FetchInFlight == fetchLog # <<>> /\ fetchLog[Len(fetchLog)].result = "pending"

\* C29: while a fetch is in flight the worker is inside it and no worker
\* step other than the fetch's return is possible; every step that is not
\* that return leaves the fetch in flight, the worker where it is, with the
\* same command and jobs, and nothing more executed, while the queue only
\* grows; the fetch ends only by returning its own outcome, so for as long
\* as it does not return no later command is started.
C29_FetchBlocksWorker ==
    [][FetchInFlight =>
          /\ workerPc = "fetching"
          /\ ~ENABLED (WorkerCore \/ WorkerRunJob \/ WorkerNativeReturn
                         \/ \E i \in DOMAIN timers : WorkerRunTimer(i))
          /\ \A i \in DOMAIN queue : ~Started(queue[i].id)
          /\ IF fetchLog' = fetchLog
             THEN /\ UNCHANGED <<workerPc, cur, jobs, cache, execLog, importLog>>
                  /\ QueueGrew
             ELSE /\ Len(fetchLog') = Len(fetchLog)
                  /\ fetchLog'[Len(fetchLog)].result \in FetchOutcomes
                  /\ workerPc' = "flush"
                  /\ UNCHANGED <<cur, execLog, queue>>]_vars

\* A fetch is in flight for one command while two later commands wait in
\* the queue, neither started.
C29_Witness ==
    /\ FetchInFlight
    /\ Len(queue) >= 2
    /\ \A i \in DOMAIN queue :
          /\ queue[i].id > cur.id
          /\ ~Started(queue[i].id)

\* The data of the sends on connection id that the manager accepted, in
\* the order of the calls.
Accepted(id) ==
    LET Queued(e) == e.id = id /\ e.result = "queued"
        calls == SelectSeq(sendLog, Queued)
    IN  [k \in DOMAIN calls |-> calls[k].msg]

IsPrefix(a, b) == Len(a) <= Len(b) /\ SubSeq(b, 1, Len(a)) = a

IsSuffix(a, b) == Len(a) <= Len(b) /\ SubSeq(b, Len(b) - Len(a) + 1, Len(b)) = a

\* The sends that reached WebSocketManager::send and found the connection
\* in the table and Open.
OpenSends == {i \in DOMAIN sendLog :
                 sendLog[i].present /\ sendLog[i].state = WS_OPEN
                 /\ sendLog[i].result # "throw"}

\* C30 as claimed: every send that finds its connection Open is accepted
\* onto the outbound queue.
C30_OpenSendAlwaysQueues ==
    \A i \in OpenSends : sendLog[i].result = "queued"

\* C30, amended: a send that finds its connection Open never blocks the
\* caller, whatever the queue holds: it is accepted onto the queue, or, when
\* the send task has already ended (a failed write, or the stream ended
\* with the state left Open), it returns the error "Failed to send" and
\* queues nothing.  What is written is a prefix of what was accepted, in
\* the order accepted; what is pending is the end of it; a message is
\* written only by a running send task that finds the state Open, and a
\* task that finds any other state, or fails to write, stops for good.
C30_OpenSendQueuesWhileTaskLives ==
    /\ [](/\ \A i \in OpenSends : sendLog[i].result \in {"queued", "send_failed"}
          /\ \A id \in DOMAIN outbound :
                /\ IsPrefix(wire[id], Accepted(id))
                /\ IsSuffix(outbound[id], Accepted(id))
                /\ Len(wire[id]) + Len(outbound[id]) <= Len(Accepted(id))
          /\ (workerPc = "eval" /\ cur.src.ws.op \in {"send", "native_send"})
                => ENABLED WorkerEval)
    /\ [][/\ sendLog' # sendLog =>
               LET e == sendLog'[Len(sendLog')]
               IN  /\ workerPc' = "flush"
                   /\ e.result = "queued" <=>
                         (e.present /\ e.state = WS_OPEN /\ RxAlive(e.id)
                            /\ e.result # "throw")
                   /\ e.result = "queued" =>
                         outbound'[e.id] = Append(outbound[e.id], e.msg)
                   /\ e.result # "queued" => outbound' = outbound
          /\ \A id \in DOMAIN wire :
                /\ wire'[id] # wire[id] =>
                      /\ sendPc[id] = "run"
                      /\ readyState[id] = WS_OPEN
                      /\ wire'[id] = Append(wire[id], Head(outbound[id]))
                /\ (sendPc[id] = "run" /\ Len(outbound'[id]) < Len(outbound[id])
                      /\ wire'[id] = wire[id]) => sendPc'[id] = "stopped"
                /\ sendPc[id] = "stopped" =>
                      sendPc'[id] = "stopped" /\ wire'[id] = wire[id]]_vars

\* Two sends were accepted on an Open connection, the second while the
\* first was still pending, and the send task wrote both, in that order.
C30_Witness ==
    \E id \in DOMAIN wire :
        /\ Len(wire[id]) = 2
        /\ wire[id][1] < wire[id][2]
        /\ wire[id] = Accepted(id)
        /\ \E i \in DOMAIN sendLog :
              /\ sendLog[i].msg = wire[id][2]
              /\ sendLog[i].pending > 0

\* The events the thread of connection id dispatched to end it.
EndEvents(id) ==
    LET Ends(e) == e[1] \notin {"open", "message"}
    IN  SelectSeq(DispatchedEvents(id), Ends)

\* The end events of connection id that were put on the command queue.
EnqueuedEndEvents(id) ==
    LET Ends(e) == e[1] \notin {"open", "message"}
    IN  SelectSeq(EnqueuedEvents(id), Ends)

\* The read loop of connection id was entered.
ReadLoopEntered(id) == sendPc[id] # "off"

\* C31 as claimed: once the thread of a connection that read a close frame
\* or a read error has returned, one close event with the peer's code, or
\* one error event and then one close event with code 1006, is on record
\* as enqueued for its id.
C31_PeerCloseEnqueuesEvents ==
    \A id \in DOMAIN auxPc :
        (ReadLoopEntered(id) /\ auxPc[id] = "done" /\ auxCode[id] # 0) =>
            EnqueuedEndEvents(id) =
               IF auxCode[id] = 1006 THEN << <<"error", 0>>, <<"close", 1006>> >>
               ELSE << <<"close", auxCode[id]>> >>

\* C31, amended: the read of a close frame stores Closed and is followed by
\* the dispatch of one close event with the peer's code (1000 for a frame
\* with no payload), the read of an error stores Closed and is followed by
\* the dispatch of one error event and then one close event with code
\* 1006; each is enqueued if the worker still has its receiver when it is
\* dispatched; after either the thread reads no further frame, dispatches
\* nothing more, never connects again and returns.
C31_PeerCloseDispatchesEvents ==
    /\ [](\A id \in DOMAIN auxPc : ReadLoopEntered(id) =>
            /\ auxPc[id] = "running" => EndEvents(id) = <<>> /\ auxCode[id] = 0
            /\ auxPc[id] = "error" => EndEvents(id) = <<>> /\ auxCode[id] = 1006
            /\ auxPc[id] = "close" =>
                  /\ auxCode[id] \in {1000, 1001, 1006}
                  /\ EndEvents(id) = IF auxCode[id] = 1006 THEN << <<"error", 0>> >> ELSE <<>>
            /\ auxPc[id] = "done" =>
                  EndEvents(id) =
                     IF auxCode[id] = 0 THEN <<>>
                     ELSE IF auxCode[id] = 1006 THEN << <<"error", 0>>, <<"close", 1006>> >>
                     ELSE << <<"close", auxCode[id]>> >>
            /\ receiverAlive => EnqueuedEvents(id) = DispatchedEvents(id))
    /\ [][\A id \in DOMAIN auxPc : ReadLoopEntered(id) =>
            /\ (auxPc[id] = "running" /\ auxPc'[id] \in {"close", "error"}) =>
                  /\ readyState'[id] = WS_CLOSED
                  /\ Len(frames'[id]) = Len(frames[id]) + 1
                  /\ auxPc'[id] = "error" <=> auxCode'[id] = 1006
            /\ auxPc[id] \in {"error", "close", "done"} =>
                  /\ frames'[id] = frames[id]
                  /\ auxCode'[id] = auxCode[id]
                  /\ auxPc'[id] \in {"error", "close", "done"}
                  /\ auxPc'[id] # "error" \/ auxPc[id] = "error"
            /\ auxPc[id] = "done" => auxPc'[id] = "done"]_vars

\* A peer closed an open connection with a code: the thread stored Closed,
\* dispatched the close event with that code and returned, and the worker
\* delivered the event to the shim.
C31_Witness ==
    \E id \in DOMAIN auxPc :
        /\ ReadLoopEntered(id)
        /\ auxPc[id] = "done"
        /\ auxCode[id] = 1001
        /\ readyState[id] = WS_CLOSED
        /\ EnqueuedEndEvents(id) = << <<"close", 1001>> >>
        /\ \E k \in DOMAIN jsEvents :
              jsEvents[k].id = id /\ jsEvents[k].ev = "close" /\ jsEvents[k].code = 1001

\* The places of the text frames among the frames read on connection id.
TextPlaces(id) ==
    LET IsText(k) == frames[id][k] = "text"
    IN  SelectSeq([k \in 1..Len(frames[id]) |-> k], IsText)

\* The message events among a sequence of <<type, data>> events.
MessagesOf(events) ==
    LET IsMessage(e) == e[1] = "message"
    IN  SelectSeq(events, IsMessage)

\* The message events of connection id that the worker executed, oldest
\* first, by their data.
ExecutedMessages(id) ==
    LET Mine(e) == e.id = id /\ e.ev = "message"
        evs == SelectSeq(jsEvents, Mine)
    IN  [k \in DOMAIN evs |-> evs[k].code]

\* s is strictly increasing.
IsIncreasing(s) == \A i, j \in DOMAIN s : i < j => s[i] < s[j]

\* C32: the message events dispatched for a connection are exactly one per
\* text frame read, each with that frame's data, in the order the frames
\* arrived; they are the enqueued ones while the worker has its receiver,
\* and the worker executes them in arrival order; the read of a binary,
\* ping, pong or raw frame dispatches nothing and changes neither the
\* ready-state, the connection table nor the thread's course.
C32_OneMessagePerTextFrame ==
    /\ [](\A id \in DOMAIN frames :
            /\ MessagesOf(DispatchedEvents(id)) =
                  [k \in DOMAIN TextPlaces(id) |-> <<"message", TextPlaces(id)[k]>>]
            /\ receiverAlive =>
                  MessagesOf(EnqueuedEvents(id)) = MessagesOf(DispatchedEvents(id))
            /\ IsIncreasing(ExecutedMessages(id))
            /\ \A k \in DOMAIN ExecutedMessages(id) :
                  \E j \in DOMAIN TextPlaces(id) : TextPlaces(id)[j] = ExecutedMessages(id)[k])
    /\ [][\A id \in DOMAIN frames :
            (/\ Len(frames'[id]) > Len(frames[id])
             /\ frames'[id][Len(frames'[id])] \in {"binary", "ping", "pong", "raw"})
               => UNCHANGED <<callLog, queue, readyState, connections, auxPc, auxCode,
                              wsRegistry, jsReadyState, jsEvents>>]_vars

\* A connection read a text frame, a binary frame and a text frame: two
\* message events were dispatched, for the first and the third frame, and
\* the worker executed them in that order.
C32_Witness ==
    \E id \in DOMAIN frames :
        /\ frames[id] = <<"text", "binary", "text">>
        /\ readyState[id] = WS_OPEN
        /\ ExecutedMessages(id) = <<1, 3>>

\* The JSON escape of a character that needs one.
JsonEscapeOf(c) ==
    CASE c = "\"" -> <<"\\", "\"">>
      [] c = "\\" -> <<"\\", "\\">>
      [] c = "\n" -> <<"\\", "n">>
      [] c = "\r" -> <<"\\", "r">>
      [] c = "\t" -> <<"\\", "t">>
      [] c = "U+0000" -> <<"\\", "u", "0", "0", "0", "0">>
      [] c = "U+001F" -> <<"\\", "u", "0", "0", "1", "f">>
      [] c = "U+007F" -> <<"\\", "u", "0", "0", "7", "f">>
      [] c = "U+009F" -> <<"\\", "u", "0", "0", "9", "f">>

NeedsEscape(c) == c \in {"\"", "\\"} \/ IsControl(c)

\* The text in which each character of str that needs an escape is
\* replaced by its JSON escape.
RECURSIVE Escaped(_)
Escaped(str) ==
    IF str = <<>> THEN <<>>
    ELSE (IF NeedsEscape(Head(str)) THEN JsonEscapeOf(Head(str)) ELSE <<Head(str)>>)
         \o Escaped(Tail(str))

\* C33: the result of escape_json_string is the input with every double
\* quote, backslash and control character replaced by its JSON escape and
\* every other character unchanged; it holds no bare double quote and no
\* control character, and read as the body of a double-quoted string
\* literal it denotes exactly the input.
C33_EscapeDecodesToInput ==
    escPc = "done" =>
        /\ escOut = Escaped(escIn)
        /\ \A i \in DOMAIN escOut : ~IsControl(escOut[i])
        /\ DecodeLiteral(escOut) = [ok |-> TRUE, v |-> escIn]

\* A string with a double quote, a control character that has no short
\* escape and a plain character was escaped.
C33_Witness ==
    /\ escPc = "done"
    /\ escIn = <<"\"", "U+001F", "a">>
    /\ escOut = <<"\\", "\"", "\\", "u", "0", "0", "1", "f", "a">>

\* How many events of type ev are in a sequence of <<type, data>> events.
CountOf(events, ev) == Cardinality({k \in DOMAIN events : events[k][1] = ev})

\* At most one open and one close, the open before every message, nothing
\* after the close.
WellOrdered(events) ==
    /\ CountOf(events, "open") <= 1
    /\ CountOf(events, "close") <= 1
    /\ \A i, j \in DOMAIN events :
          (events[i][1] = "message" /\ events[j][1] = "open") => j < i
    /\ \A i \in DOMAIN events : events[i][1] = "close" => i = Len(events)

\* C34: for every connection id, whatever close(id) calls interleave with
\* its thread, the events dispatched and the events enqueued for it hold at
\* most one open and at most one close, the open comes before every
\* message, and nothing follows the close; the events the worker executed
\* for it are in the same order.
C34_EventsWellOrdered ==
    \A id \in DOMAIN auxPc :
        /\ WellOrdered(DispatchedEvents(id))
        /\ WellOrdered(EnqueuedEvents(id))
        /\ LET Mine(e) == e.id = id
               evs == SelectSeq(jsEvents, Mine)
           IN  WellOrdered([k \in DOMAIN evs |-> <<evs[k].ev, evs[k].code>>])

\* close(id) was called on a connection while its thread was running, and
\* the thread enqueued open, a message and the peer's close, in this order.
C34_Witness ==
    \E id \in DOMAIN auxPc :
        /\ id \notin connections
        /\ auxPc[id] = "done"
        /\ EnqueuedEvents(id) = << <<"open", 0>>, <<"message", 1>>, <<"close", 1000>> >>

\* The open and message events among a sequence of <<type, data>> events.
OpensAndMessagesOf(events) ==
    LET IsOne(e) == e[1] \in {"open", "message"}
    IN  SelectSeq(events, IsOne)

\* C35: once close(id) has returned (the handle of id is out of the
\* connection table), the thread of id enqueues no further open or message
\* event for id.
C35_NoOpenOrMessageAfterClose ==
    [][\A id \in DOMAIN auxPc :
          id \notin connections =>
             OpensAndMessagesOf(EnqueuedEvents(id))' = OpensAndMessagesOf(EnqueuedEvents(id))]_vars

\* close() has been called on the script object of connection id and its
\* close event has not come: _readyState is 2.
ScriptClosing(id) == id \in DOMAIN jsReadyState /\ jsReadyState[id] = WS_CLOSING

\* The script object of id has had its close event: _readyState is 3 and
\* the registry entry is gone.
ScriptClosed(id) ==
    /\ id \in DOMAIN jsReadyState
    /\ jsReadyState[id] = WS_CLOSED
    /\ id \notin wsRegistry

\* C36: a script object on which close() has been called eventually has
\* its close event: its _readyState becomes 3 and its entry leaves the
\* registry.
C36_ClosedObjectGetsCloseEvent == ScriptClosing(1) ~> ScriptClosed(1)

\* C37: every socket event that the worker executes finds the instance of
\* its id in wsRegistry, unless the close event of that id was executed
\* before it; and while a constructor has not yet stored its instance the
\* worker executes nothing else.
C37_EventNeverBeforeInstanceStored ==
    /\ \A k \in DOMAIN jsEvents :
          \/ jsEvents[k].delivered
          \/ \E j \in 1..(k - 1) : jsEvents[j].id = jsEvents[k].id /\ jsEvents[j].ev = "close"
    /\ \A k \in DOMAIN jsEvents :
          \E i \in DOMAIN earlyEvents : earlyEvents[i].id = jsEvents[k].id
    /\ workerPc = "ctor" => \A k \in DOMAIN jsEvents : jsEvents[k].id # CtorId

\* The thread of a connection whose url does not parse had enqueued its
\* error and close events before the constructor stored the instance, and
\* both reached the instance when the worker executed them.
C37_Witness ==
    \E i \in DOMAIN earlyEvents :
        /\ earlyEvents[i].n = 2
        /\ \E k \in DOMAIN jsEvents :
              /\ jsEvents[k].id = earlyEvents[i].id
              /\ jsEvents[k].ev = "close"
              /\ jsEvents[k].delivered
              /\ jsEvents[k - 1].id = earlyEvents[i].id
              /\ jsEvents[k - 1].ev = "error"
              /\ jsEvents[k - 1].delivered

\* The node ids of the CreateNode and CreateText messages among msgs, in
\* their order.
CreateIds(msgs) ==
    LET IsCreate(m) == m.kind \in CreateKinds
        creates == SelectSeq(msgs, IsCreate)
    IN  [k \in DOMAIN creates |-> creates[k].node_id]

\* Those of them whose id was allocated by thread p.
CreateIdsBy(msgs, p) ==
    LET ByP(n) == \E k \in DOMAIN allocLog : allocLog[k].id = n /\ allocLog[k].by = p
    IN  SelectSeq(CreateIds(msgs), ByP)

\* C38 as stated: the consumer of a bridge receives its CreateNode and
\* CreateText messages in strictly increasing node_id order, whichever
\* threads made the calls.
C38_CreatesReceivedInIdOrder ==
    \A b \in Bridges : IsIncreasing(CreateIds(recvLog[b]))

\* C38: the CreateNode and CreateText messages of the calls that one thread
\* made enter a bridge, and are received from it, in strictly increasing
\* node_id order; the messages of calls made by different threads need not
\* be.
C38_CreatesOfOneThreadInIdOrder ==
    \A b \in Bridges, p \in Producers :
        /\ IsIncreasing(CreateIdsBy(recvLog[b] \o chan[b], p))
        /\ IsIncreasing(CreateIdsBy(recvLog[b], p))

\* One thread took ids 1 and 3 and another took id 2 between them, all on
\* one bridge: the consumer received 2 and then 1, and 3 is pending.
C38_Witness ==
    \E b \in Bridges, p, q \in Producers :
        /\ p # q
        /\ CreateIds(recvLog[b]) = <<2, 1>>
        /\ CreateIds(chan[b]) = <<3>>
        /\ CreateIdsBy(recvLog[b] \o chan[b], p) = <<1, 3>>
        /\ CreateIdsBy(recvLog[b] \o chan[b], q) = <<2>>

\* The worker is inside a native call of the host bridge and the receiver
\* of its bridge is gone.
SendMustFail == workerPc = "native" /\ WorkerBridge \in rxDropped

\* C39: a native call of the host bridge whose send finds the receiver
\* dropped hands nothing back to the script: the worker's next step is the
\* panic, which takes it out of its loop with no return value recorded and
\* no message put on the bridge; from then on the worker starts no command,
\* runs no script and makes no native call, and ends exited.
C39_DroppedReceiverPanicsWorker ==
    /\ [][(SendMustFail /\ workerPc' # workerPc) =>
             /\ workerPc' = "exiting"
             /\ exitCause' = "panic"
             /\ execLog' = Append(execLog, Event(cur.id, "panic"))
             /\ retLog' = retLog
             /\ chan' = chan]_vars
    /\ [][exitCause = "panic" =>
             /\ workerPc' \in {"exiting", "exited"}
             /\ <<execLog, retLog, nativeLog, allocLog, jsEvents, registered, cache, jobs>>'
                  = <<execLog, retLog, nativeLog, allocLog, jsEvents, registered, cache, jobs>>]_vars
    /\ [](\A i \in DOMAIN retLog : retLog[i].value >= 0)

\* The receiver was dropped while the worker was blocked in create_node on
\* a full bridge: the worker panicked and exited, the call returned nothing,
\* and a command that was already on the channel was never started.
C39_Witness ==
    /\ workerPc = "exited"
    /\ exitCause = "panic"
    /\ prefill = BridgeCapacity
    /\ WorkerBridge \in rxDropped
    /\ \E i \in DOMAIN nativeLog :
          /\ i > prefill
          /\ nativeLog[i].by = WorkerProducer
          /\ \A k \in DOMAIN retLog : retLog[k].call # i
    /\ \E i \in DOMAIN callLog : callLog[i].ok /\ ~Started(callLog[i].cmd.id)

\* C40: no id allocated by createNode or createText is 0, the first one
\* is 1; no create message carries 0, so 0 is never a key of the host's
\* node table and a parent_id of 0 stands for the root container alone:
\* every created node is found under its own id, never as the root.
C40_ZeroIsNeverANodeId ==
    /\ \A k \in DOMAIN allocLog : allocLog[k].id # 0
    /\ allocLog # <<>> => allocLog[1].id = 1
    /\ \A k \in DOMAIN nativeLog :
          nativeLog[k].msg.kind \in CreateKinds => nativeLog[k].msg.node_id # 0
    /\ \A k \in DOMAIN retLog :
          nativeLog[retLog[k].call].msg.kind \in CreateKinds => retLog[k].value # 0
    /\ \A b \in Bridges :
          /\ 0 \notin HostNodes(b)
          /\ ParentEntity(b, 0) = "root"
          /\ \A n \in HostNodes(b) : ParentEntity(b, n) = n

\* The first node was created and appended: the consumer has its create,
\* with id 1, and the AppendChild of it.
C40_Witness ==
    \E b \in Bridges :
        /\ allocLog # <<>>
        /\ allocLog[1].id = 1
        /\ HostNodes(b) = {1}
        /\ recvLog[b] = <<Msg("CreateNode", 1), Msg("AppendChild", 1)>>

ScenarioPathReferrer == <<"/", "a", "p", "p", "/", "s", "r", "c", "/", "a", ".", "j", "s">>

ScenarioUrlReferrer == <<"h", "t", "t", "p", ":", "/", "/", "h", "o", "s", "t", ":", "5", "1", "7", "3", "/", "s", "r", "c", "/", "a", ".", "t", "s", "x">>

UrlPrefix == <<"h", "t", "t", "p", ":", "/", "/">>

\* C9: "./b.js" with the referrer "/app/src/a.js" resolves to
\* "/app/src/b.js".
C9_PathScenario ==
    (rPc = "done" /\ rReferrer = ScenarioPathReferrer /\ rSpecifier = <<".", "/", "b", ".", "j", "s">>)
       => rResolved.key = <<"/", "a", "p", "p", "/", "s", "r", "c", "/", "b", ".", "j", "s">>

\* C10 as claimed: with a URL referrer the resolved key is an absolute URL.
C10_AlwaysAbsoluteUrl ==
    (rPc = "done" /\ StartsWith(rReferrer, UrlPrefix))
       => (StartsWith(rResolved.key, UrlPrefix) /\ Len(rResolved.key) > Len(UrlPrefix))

\* What standard URL resolution gives against "http://host:5173/src/a.tsx".
ScenarioExpected(specifier) ==
    CASE specifier = <<".", "/", "b", ".", "j", "s">> -> <<"h", "t", "t", "p", ":", "/", "/", "h", "o", "s", "t", ":", "5", "1", "7", "3", "/", "s", "r", "c", "/", "b", ".", "j", "s">>
      [] specifier = <<"b", ".", "j", "s">> -> <<"h", "t", "t", "p", ":", "/", "/", "h", "o", "s", "t", ":", "5", "1", "7", "3", "/", "s", "r", "c", "/", "b", ".", "j", "s">>
      [] specifier = <<"/", "c", ".", "j", "s">> -> <<"h", "t", "t", "p", ":", "/", "/", "h", "o", "s", "t", ":", "5", "1", "7", "3", "/", "c", ".", "j", "s">>
      [] specifier = <<".", ".", "/", "c", ".", "j", "s">> -> <<"h", "t", "t", "p", ":", "/", "/", "h", "o", "s", "t", ":", "5", "1", "7", "3", "/", "c", ".", "j", "s">>
      [] specifier = <<"d", "/", ".", "/", "c", ".", "j", "s">> -> <<"h", "t", "t", "p", ":", "/", "/", "h", "o", "s", "t", ":", "5", "1", "7", "3", "/", "s", "r", "c", "/", "d", "/", "c", ".", "j", "s">>
      [] specifier = <<"/", "/", "h", "/", "x">> -> <<"h", "t", "t", "p", ":", "/", "/", "h", "/", "x">>
      [] specifier = <<>> -> ScenarioUrlReferrer
      [] specifier = KeyB -> KeyB
      [] OTHER -> specifier

\* C10, amended: with a URL referrer the key is the specifier resolved
\* against it by URL resolution, an absolute URL without dot segments
\* ("/c.js" against "http://host:5173/src/a.tsx" gives
\* "http://host:5173/c.js"), unless the resolution fails: then the key is
\* the specifier as written.
C10_UrlResolvedOrRaw ==
    (rPc = "done" /\ StartsWith(rReferrer, UrlPrefix)) =>
        /\ rResolved.how \in {"url", "url_err"}
        /\ rResolved.how = "url" =>
              /\ StartsWith(rResolved.key, UrlPrefix)
              /\ Len(rResolved.key) > Len(UrlPrefix)
              /\ \A i \in 1..(Len(rResolved.key) - 1) :
                    (rResolved.key[i] = "/" /\ rResolved.key[i + 1] = ".") =>
                        /\ i + 2 <= Len(rResolved.key)
                        /\ rResolved.key[i + 2] \notin {"/", "."}
        /\ rResolved.how = "url_err" => rResolved.key = rSpecifier
        /\ rResolved.how = "url_err" <=> rSpecifier = <<"/", "/">>
        /\ rReferrer = ScenarioUrlReferrer => rResolved.key = ScenarioExpected(rSpecifier)

\* The scenario of the claim has been resolved.
C10_Witness ==
    /\ rPc = "done"
    /\ rReferrer = ScenarioUrlReferrer
    /\ rSpecifier = <<"/", "c", ".", "j", "s">>
    /\ rResolved.key = <<"h", "t", "t", "p", ":", "/", "/", "h", "o", "s", "t", ":", "5", "1", "7", "3", "/", "c", ".", "j", "s">>

====
